---- MODULE Spec2Model ----
(***************************************************************************)
(* Hands (rules4code): the synchronisation and dependency-resolution       *)
(* engine.  The dependency resolver and orphan finder, the metadata        *)
(* ledger (tracker), the JSON mergers and the sync driver are modelled     *)
(* from the sources; each run of the CLI is one step of the state machine. *)
(***************************************************************************)
EXTENDS Integers, Sequences, FiniteSets, TLC

VARIABLES
    source,     \* the source tree rules/.claude: skills, agents, hooks, mcp-servers
    target,     \* the target project: installed skills/agents, backups, the two JSON documents
    ledger,     \* .hands-meta.json as readMetadata returns it
    clock,      \* the wall clock behind new Date()
    last,       \* what the last run of the CLI was given and what it reported
    rin,        \* resolveDependencies: the argument of the call
    rout,       \* resolveDependencies: what the call returned
    tcall,      \* tracker: the last mutating call and the entry it met
    edits       \* how often the source tree or the target was changed by hand

vars == <<source, target, ledger, clock, last, rin, rout, tcall, edits>>

----------------------------------------------------------------------------
(* Bounds and universes *)

MaxDeps == 1        \* longest manifest.skills list drawn for the resolver
MaxRuns == 2        \* runs of the CLI in one behaviour
MaxCalls == 3       \* tracker calls in one behaviour
MaxEdits == 1       \* changes made by hand to the source tree and the target in one behaviour

SkillNames == {"X", "Y", "D"}
AgentNames == {"Z"}
McpNames   == {"E"}

None == <<>>
Some(x) == <<x>>

\* JS array helpers
InSeq(s, x) == \E i \in 1..Len(s) : s[i] = x
Range(s) == {s[i] : i \in 1..Len(s)}
NoDup(s) == \A i, j \in 1..Len(s) : s[i] = s[j] => i = j

\* duplicate-free sequences over S of length at most n
RECURSIVE SeqsUpTo(_, _)
SeqsUpTo(S, n) ==
    IF n = 0 THEN {<<>>}
    ELSE LET shorter == SeqsUpTo(S, n - 1)
         IN  shorter \cup {Append(s, x) : s \in {t \in shorter : Len(t) = n - 1},
                                            x \in S}

DistinctSeqs(S, n) == {s \in SeqsUpTo(S, n) : NoDup(s)}

----------------------------------------------------------------------------
(* lib/resolver.js: resolveDependencies *)

\* new Set(...).add(v) on a set kept in insertion order
SetAdd(s, v) == IF InSeq(s, v) THEN s ELSE Append(s, v)

\* a Map name -> Set kept in insertion order: <<[name, requiredBy], ...>>
MapHas(m, k) == \E i \in 1..Len(m) : m[i].name = k

\* the same, with a requirer recorded only when the entry is created
RequireAddDropsLater(m, k, v) ==
    IF MapHas(m, k) THEN m ELSE Append(m, [name |-> k, requiredBy |-> <<v>>])

\* if (!map.has(k)) map.set(k, new Set()); map.get(k).add(v)
RequireAdd(m, k, v) ==
    IF MapHas(m, k)
    THEN [i \in 1..Len(m) |->
            IF m[i].name = k THEN [m[i] EXCEPT !.requiredBy = SetAdd(@, v)] ELSE m[i]]
    ELSE Append(m, [name |-> k, requiredBy |-> <<v>>])

\* walks is a record of the run, not a value of the code: the names in the
\* order in which resolveSkill got past its guards and read their manifest
EmptyResolution ==
    [resolved |-> {}, requiredMcpServers |-> <<>>, requiredAgents |-> <<>>,
     requiredSkills |-> <<>>, errors |-> <<>>, warnings |-> <<>>, walks |-> <<>>]

\* a variant of the loop over manifest.mcpServers that ends at the first name
\* that is not in the pool
RECURSIVE resolveMcpServersUntilMissing(_, _, _, _, _)
resolveMcpServersUntilMissing(in, name, list, i, st) ==
    IF i > Len(list) THEN st
    ELSE IF list[i] \in in.pool
         THEN resolveMcpServersUntilMissing(in, name, list, i + 1,
                [st EXCEPT !.requiredMcpServers = RequireAdd(@, list[i], name)])
         ELSE [st EXCEPT !.warnings = Append(@, [skill |-> name, kind |-> "mcp", dep |-> list[i]])]

\* the for loop over manifest.mcpServers (lines 491-504)
RECURSIVE resolveMcpServers(_, _, _, _, _)
resolveMcpServers(in, name, list, i, st) ==
    IF i > Len(list) THEN st
    ELSE resolveMcpServers(in, name, list, i + 1,
            IF list[i] \in in.pool
            THEN [st EXCEPT !.requiredMcpServers = RequireAdd(@, list[i], name)]
            ELSE [st EXCEPT !.warnings = Append(@, [skill |-> name, kind |-> "mcp", dep |-> list[i]])])

\* a variant of the agent branch that requires a selected agent as well
resolveAgentOfAnySelection(in, name, agentName, st) ==
    IF agentName = "" THEN st
    ELSE IF agentName \in in.allAgents
         THEN [st EXCEPT !.requiredAgents = RequireAdd(@, agentName, name)]
         ELSE [st EXCEPT !.warnings = Append(@, [skill |-> name, kind |-> "agent", dep |-> agentName])]

\* the agent branch (lines 507-522); agent = "" is a manifest without agent
resolveAgent(in, name, agentName, st) ==
    IF agentName = "" THEN st
    ELSE IF agentName \in in.allAgents
         THEN IF agentName \notin in.selectedAgents
              THEN [st EXCEPT !.requiredAgents = RequireAdd(@, agentName, name)]
              ELSE st
         ELSE [st EXCEPT !.warnings = Append(@, [skill |-> name, kind |-> "agent", dep |-> agentName])]

RECURSIVE resolveSkill(_, _, _, _)
RECURSIVE resolveSkillDeps(_, _, _, _, _, _)

\* the for loop over manifest.skills (lines 525-541)
resolveSkillDeps(in, name, list, i, currentChain, st) ==
    IF i > Len(list) THEN st
    ELSE LET depName == list[i]
             st1 == IF depName \in DOMAIN in.allSkills
                    THEN resolveSkill(in, depName, currentChain,
                            IF ~InSeq(in.selectedSkills, depName)
                            THEN [st EXCEPT !.requiredSkills = RequireAdd(@, depName, name)]
                            ELSE st)
                    ELSE [st EXCEPT !.warnings =
                            Append(@, [skill |-> name, kind |-> "skill", dep |-> depName])]
         IN  resolveSkillDeps(in, name, list, i + 1, currentChain, st1)

\* a variant of resolveSkill that passes by a resolved skill only at the top of
\* a walk, and below it relies on the chain
resolveSkillByChain(in, name, chain, st) ==
    IF name \in st.resolved /\ chain = <<>> THEN st
    ELSE IF InSeq(chain, name)
    THEN [st EXCEPT !.errors = Append(@, Append(chain, name))]
    ELSE LET st1 == [st EXCEPT !.resolved = @ \cup {name}, !.walks = Append(@, name)]
         IN  IF in.allSkills[name].manifest = None THEN st1
             ELSE LET manifest == in.allSkills[name].manifest[1]
                      st2 == resolveMcpServers(in, name, manifest.mcpServers, 1, st1)
                      st3 == resolveAgent(in, name, manifest.agent, st2)
                  IN  resolveSkillDeps(in, name, manifest.skills, 1, Append(chain, name), st3)

\* function resolveSkill(skill, chain = []) (lines 475-542); the state the
\* closure works on is one value, whatever expression the caller passed
resolveSkill(in, name, chain, state) ==
    LET walk(st) ==
          IF name \in st.resolved THEN st
          ELSE IF InSeq(chain, name)
          THEN [st EXCEPT !.errors = Append(@, Append(chain, name))]
          ELSE LET st1 == [st EXCEPT !.resolved = @ \cup {name}, !.walks = Append(@, name)]
               IN  IF in.allSkills[name].manifest = None THEN st1
                   ELSE LET manifest == in.allSkills[name].manifest[1]
                            st2 == resolveMcpServers(in, name, manifest.mcpServers, 1, st1)
                            st3 == resolveAgent(in, name, manifest.agent, st2)
                        IN  resolveSkillDeps(in, name, manifest.skills, 1, Append(chain, name), st3)
    IN  CHOOSE r \in {walk(st) : st \in {state}} : TRUE

\* for (const skill of selectedSkills) resolveSkill(skill) (lines 545-547)
RECURSIVE resolveSelected(_, _, _)
resolveSelected(in, i, st) ==
    IF i > Len(in.selectedSkills) THEN st
    ELSE resolveSelected(in, i + 1, resolveSkill(in, in.selectedSkills[i], <<>>, st))

\* for (const [, requiredBy] of requiredSkills) ... (lines 550-553); the Map is
\* iterated while resolveSkill may still add to it
RECURSIVE resolveTransitive(_, _, _)
resolveTransitive(in, i, state) ==
    LET step(st) ==
          IF i > Len(st.requiredSkills) THEN st
          ELSE LET first == st.requiredSkills[i].requiredBy[1]
               IN  resolveTransitive(in, i + 1,
                      IF first \in DOMAIN in.allSkills THEN resolveSkill(in, first, <<>>, st) ELSE st)
    IN  CHOOSE r \in {step(st) : st \in {state}} : TRUE

\* Build result arrays (lines 556-575)
resolutionResult(st) ==
    [mcpServers |-> st.requiredMcpServers,
     agents     |-> st.requiredAgents,
     skills     |-> st.requiredSkills,
     errors     |-> st.errors,
     warnings   |-> st.warnings]

\* the two loops that call resolveSkill (lines 545-553)
resolveWalks(in) == resolveTransitive(in, 1, resolveSelected(in, 1, EmptyResolution))

\* resolveDependencies({selectedSkills, allSkills, selectedAgents, allAgents, dependencyPool})
resolveDependencies(in) == resolutionResult(resolveWalks(in))

----------------------------------------------------------------------------
(* lib/tracker.js: the metadata ledger *)

\* A JS object with string keys, in insertion order: <<[name |-> k, ...], ...>>.
ObjHas(o, k) == \E i \in 1..Len(o) : o[i].name = k
ObjGet(o, k) == o[CHOOSE i \in 1..Len(o) : o[i].name = k]

\* o[k] = e: an existing key keeps its place, a new key goes last
ObjSet(o, e) ==
    IF ObjHas(o, e.name)
    THEN [i \in 1..Len(o) |-> IF o[i].name = e.name THEN e ELSE o[i]]
    ELSE Append(o, e)

\* delete o[k]
ObjDel(o, k) == SelectSeq(o, LAMBDA e : e.name # k)

VERSION == "3.0.0"

createEmptyMetadata ==
    [version |-> VERSION, installedBy |-> "hands",
     components   |-> [skills |-> <<>>, agents |-> <<>>, hooks |-> <<>>],
     resolvedDeps |-> [mcpServers |-> <<>>, agents |-> <<>>, skills |-> <<>>]]

\* The metadata file is None while it does not exist; otherwise it holds a text
\* and, when the text parses as JSON, the document parsed: a record with any of
\* the keys of the schema.
Unparsable(text) == [text |-> text, json |-> None]
Stored(data)     == [text |-> "json", json |-> Some(data)]

\* { ...empty, ...data }[key] (lines 51-53): the stored value of a top-level
\* key, the default when the document lacks the key
Spread(data, key) ==
    IF key \in DOMAIN data THEN data[key] ELSE createEmptyMetadata[key]

\* { ...empty[key], ...(data[key] ?? {}) }[c] (lines 54-61)
BackFill(data, key, c) ==
    IF key \in DOMAIN data /\ c \in DOMAIN data[key] THEN data[key][c]
    ELSE createEmptyMetadata[key][c]

\* a variant of the overlay: the stored document spread over the defaults at the
\* top level only
OverlayShallow(data) ==
    [k \in DOMAIN createEmptyMetadata |-> Spread(data, k)]

\* the overlay of a parsed document on the defaults (lines 49-62)
Overlay(data) ==
    [version      |-> Spread(data, "version"),
     installedBy  |-> Spread(data, "installedBy"),
     components   |-> [skills |-> BackFill(data, "components", "skills"),
                       agents |-> BackFill(data, "components", "agents"),
                       hooks  |-> BackFill(data, "components", "hooks")],
     resolvedDeps |-> [mcpServers |-> BackFill(data, "resolvedDeps", "mcpServers"),
                       agents     |-> BackFill(data, "resolvedDeps", "agents"),
                       skills     |-> BackFill(data, "resolvedDeps", "skills")]]

\* readMetadata: a missing file, and a file fs.readJson fails on, read as the
\* empty ledger; a parsed document is spread over the defaults, components and
\* resolvedDeps one level deeper
readMetadata(file) ==
    IF file = None THEN createEmptyMetadata
    ELSE IF file[1].json = None THEN createEmptyMetadata
    ELSE Overlay(file[1].json[1])

writeMetadata(metadata) == Some(Stored(metadata))

\* [...new Set([...a, ...b])]
RECURSIVE UnionArrays(_, _)
UnionArrays(a, b) ==
    IF b = <<>> THEN a ELSE UnionArrays(SetAdd(a, Head(b)), Tail(b))

DedupArray(a) == UnionArrays(<<>>, a)

\* a variant of setComponent that assigns nothing
setComponentSkipped(metadata, category, name, hash, sourcePath, now) == metadata

\* metadata.components[category][name] = {hash, installedAt, sourcePath} on the
\* object readMetadata returned (lines 161-169)
setComponent(metadata, category, name, hash, sourcePath, now) ==
    [metadata EXCEPT !.components[category] =
        ObjSet(@, [name |-> name, hash |-> hash, installedAt |-> now,
                   sourcePath |-> sourcePath])]

trackInstall(file, category, name, hash, sourcePath, now) ==
    writeMetadata(setComponent(readMetadata(file), category, name, hash, sourcePath, now))

\* a variant of trackUninstall that empties the category
trackUninstallCategory(file, category, name) ==
    LET metadata == readMetadata(file)
    IN  writeMetadata([metadata EXCEPT !.components[category] = <<>>])

trackUninstall(file, category, name) ==
    LET metadata == readMetadata(file)
    IN  writeMetadata([metadata EXCEPT !.components[category] = ObjDel(@, name)])

\* variants of trackDependency: requiredBy replaced, installedAt renewed,
\* the new names dropped
trackDependencyReplace(file, category, name, hash, sourcePath, requiredBy, now) ==
    LET metadata == readMetadata(file)
        deps == metadata.resolvedDeps[category]
        entry == [name |-> name, hash |-> hash,
                  installedAt |-> IF ObjHas(deps, name) THEN ObjGet(deps, name).installedAt ELSE now,
                  sourcePath |-> sourcePath,
                  requiredBy |-> DedupArray(requiredBy)]
    IN  writeMetadata([metadata EXCEPT !.resolvedDeps[category] = ObjSet(@, entry)])

trackDependencyRestamp(file, category, name, hash, sourcePath, requiredBy, now) ==
    LET metadata == readMetadata(file)
        deps == metadata.resolvedDeps[category]
        existingRequiredBy == IF ObjHas(deps, name) THEN ObjGet(deps, name).requiredBy ELSE <<>>
        entry == [name |-> name, hash |-> hash, installedAt |-> now,
                  sourcePath |-> sourcePath,
                  requiredBy |-> DedupArray(existingRequiredBy \o requiredBy)]
    IN  writeMetadata([metadata EXCEPT !.resolvedDeps[category] = ObjSet(@, entry)])

trackDependencyKeepOld(file, category, name, hash, sourcePath, requiredBy, now) ==
    LET metadata == readMetadata(file)
        deps == metadata.resolvedDeps[category]
        existingRequiredBy == IF ObjHas(deps, name) THEN ObjGet(deps, name).requiredBy ELSE <<>>
        entry == [name |-> name, hash |-> hash,
                  installedAt |-> IF ObjHas(deps, name) THEN ObjGet(deps, name).installedAt ELSE now,
                  sourcePath |-> sourcePath,
                  requiredBy |-> DedupArray(existingRequiredBy)]
    IN  writeMetadata([metadata EXCEPT !.resolvedDeps[category] = ObjSet(@, entry)])

\* metadata.resolvedDeps[category][name] = {...} on the object readMetadata
\* returned (lines 206-217)
setDependency(metadata, category, name, hash, sourcePath, requiredBy, now) ==
    LET deps == metadata.resolvedDeps[category]
        existingRequiredBy == IF ObjHas(deps, name) THEN ObjGet(deps, name).requiredBy ELSE <<>>
        entry == [name |-> name, hash |-> hash,
                  installedAt |-> IF ObjHas(deps, name) THEN ObjGet(deps, name).installedAt ELSE now,
                  sourcePath |-> sourcePath,
                  requiredBy |-> DedupArray(existingRequiredBy \o requiredBy)]
    IN  [metadata EXCEPT !.resolvedDeps[category] = ObjSet(@, entry)]

trackDependency(file, category, name, hash, sourcePath, requiredBy, now) ==
    writeMetadata(setDependency(readMetadata(file), category, name, hash, sourcePath,
                                requiredBy, now))

removeDependency(file, category, name) ==
    LET metadata == readMetadata(file)
    IN  writeMetadata([metadata EXCEPT !.resolvedDeps[category] = ObjDel(@, name)])

\* getTrackedComponents / getTrackedDependencies
getTrackedComponents(file, category) == readMetadata(file).components[category]
getTrackedDependencies(file, category) == readMetadata(file).resolvedDeps[category]

\* the entry of a dependency, None when it is not tracked
DepEntry(file, category, name) ==
    LET deps == getTrackedDependencies(file, category)
    IN  IF ObjHas(deps, name) THEN Some(ObjGet(deps, name)) ELSE None

CompEntry(file, category, name) ==
    LET comps == getTrackedComponents(file, category)
    IN  IF ObjHas(comps, name) THEN Some(ObjGet(comps, name)) ELSE None

\* computeHash(content): an md5 digest, taken as injective
computeHash(content) == <<"md5", content>>

\* computeFileHash(path) of a file with this content
computeFileHash(content) == computeHash(content)

\* localeCompare on the relative paths that occur: a.localeCompare(b) is negative,
\* zero or positive as the rank of a is below, at or above the rank of b.
\* cafe-nfc.md and cafe-nfd.md stand for the two spellings of one accented name,
\* precomposed and decomposed: different file names, which localeCompare reports
\* as equal
PathRank == [p \in {"cafe-nfc.md", "cafe-nfd.md", "manifest.json", "notes.md", "SKILL.md"} |->
                CASE p \in {"cafe-nfc.md", "cafe-nfd.md"} -> 0
                  [] p = "manifest.json" -> 1 [] p = "notes.md" -> 2 [] p = "SKILL.md" -> 3]

\* files.sort((a, b) => a.relPath.localeCompare(b.relPath)) on a set of paths
RECURSIVE SortPaths(_)
SortPaths(P) ==
    IF P = {} THEN <<>>
    ELSE LET p == CHOOSE q \in P : \A r \in P : PathRank[q] <= PathRank[r]
         IN  <<p>> \o SortPaths(P \ {p})

\* computeDirectoryHash(dir): a directory is a function path -> content; every
\* file but manifest.json is folded, in sorted order, into one digest
computeDirectoryHash(dir) ==
    LET files == SortPaths(DOMAIN dir \ {"manifest.json"})
    IN  <<"md5", [i \in 1..Len(files) |-> <<files[i], dir[files[i]]>>]>>

\* scan(dirPath): the entries of a directory, in the order readdir gives them,
\* without manifest.json (lines 119-132)
scan(entries) == SelectSeq(entries, LAMBDA e : e.relPath # "manifest.json")

\* files.sort((a, b) => a.relPath.localeCompare(b.relPath)) (line 135): the sort
\* is stable, files that compare as equal keep the order they were found in
RECURSIVE sortFiles(_)
sortFiles(files) ==
    IF files = <<>> THEN <<>>
    ELSE LET sorted == sortFiles(SubSeq(files, 1, Len(files) - 1))
             f == files[Len(files)]
             before == SelectSeq(sorted, LAMBDA g : PathRank[g.relPath] <= PathRank[f.relPath])
             after == SelectSeq(sorted, LAMBDA g : PathRank[g.relPath] > PathRank[f.relPath])
         IN  before \o <<f>> \o after

\* hash.update(file.relPath + '\0' + content) for each file, then digest (lines
\* 137-142)
digestOf(files) ==
    <<"md5", [i \in 1..Len(files) |-> <<files[i].relPath, files[i].content>>]>>

\* computeDirectoryHash(dirPath) of a directory that readdir enumerates as entries
computeDirectoryHashOf(entries) == digestOf(sortFiles(scan(entries)))

----------------------------------------------------------------------------
(* lib/merger.js: the two shared JSON documents *)

\* readJsonFile(file, {}): a missing file reads as the empty document
EmptyDoc == [mcpServers |-> None, hooks |-> None, other |-> "none"]

readJsonFile(file) == IF file = None THEN EmptyDoc ELSE file[1]

writeJsonFile(content) == Some(content)

\* a variant of addMcpServer that keeps the value a key already has
addMcpServerKeeping(file, serverName, serverConfig) ==
    LET config == readJsonFile(file)
        servers == IF config.mcpServers = None THEN <<>> ELSE config.mcpServers[1]
    IN  writeJsonFile([config EXCEPT !.mcpServers =
            Some(IF ObjHas(servers, serverName) THEN servers
                 ELSE Append(servers, [name |-> serverName, config |-> serverConfig]))])

addMcpServer(file, serverName, serverConfig) ==
    LET config == readJsonFile(file)
        servers == IF config.mcpServers = None THEN <<>> ELSE config.mcpServers[1]
    IN  writeJsonFile([config EXCEPT !.mcpServers =
            Some(ObjSet(servers, [name |-> serverName, config |-> serverConfig]))])

removeMcpServer(file, serverName) ==
    LET config == readJsonFile(file)
    IN  writeJsonFile(IF config.mcpServers = None THEN config
                      ELSE [config EXCEPT !.mcpServers = Some(ObjDel(@[1], serverName))])

getHooks(file) ==
    LET settings == readJsonFile(file)
    IN  IF settings.hooks = None THEN <<>> ELSE settings.hooks[1]

\* index of the first handler of the list marked with hookName, 0 for findIndex's -1
FindMarked(list, hookName) ==
    IF \E i \in 1..Len(list) : list[i].hands = hookName
    THEN CHOOSE i \in 1..Len(list) :
            /\ list[i].hands = hookName
            /\ \A j \in 1..(i - 1) : list[j].hands # hookName
    ELSE 0

\* the handler as mergeHook stores it: the declared handler with the marker
Marked(handler, hookName) == [body |-> handler, hands |-> hookName]

\* a variant of placeHandler: the marked handler found is dropped and the new
\* one goes last
placeHandlerLast(list, hookName, handler) ==
    Append(SelectSeq(list, LAMBDA h : h.hands # hookName), Marked(handler, hookName))

\* one handler of the inner loop of mergeHook (lines 107-119): the first handler
\* marked hookName is overwritten, or the new handler is pushed
placeHandler(list, hookName, handler) ==
    IF FindMarked(list, hookName) > 0
    THEN [list EXCEPT ![FindMarked(list, hookName)] = Marked(handler, hookName)]
    ELSE Append(list, Marked(handler, hookName))

\* the inner loop of mergeHook over the handlers of one event (lines 106-120)
RECURSIVE mergeHandlers(_, _, _, _)
mergeHandlers(list, hookName, handlers, i) ==
    IF i > Len(handlers) THEN list
    ELSE mergeHandlers(placeHandler(list, hookName, handlers[i]),
                       hookName, handlers, i + 1)

\* the outer loop of mergeHook over the events of the hook's config (lines 99-121)
RECURSIVE mergeEvents(_, _, _, _)
mergeEvents(hooks, hookName, hookConfig, i) ==
    IF i > Len(hookConfig) THEN hooks
    ELSE LET eventType == hookConfig[i].name
             list == IF ObjHas(hooks, eventType) THEN ObjGet(hooks, eventType).list ELSE <<>>
             merged == mergeHandlers(list, hookName, hookConfig[i].handlers, 1)
         IN  mergeEvents(ObjSet(hooks, [name |-> eventType, list |-> merged]),
                         hookName, hookConfig, i + 1)

mergeHook(file, hookName, hookConfig) ==
    LET settings == readJsonFile(file)
        hooks == IF settings.hooks = None THEN <<>> ELSE settings.hooks[1]
    IN  writeJsonFile([settings EXCEPT !.hooks = Some(mergeEvents(hooks, hookName, hookConfig, 1))])

\* a variant of removeHook that leaves the emptied event keys in place
removeHookKeepsKeys(file, hookName) ==
    LET settings == readJsonFile(file)
    IN  IF settings.hooks = None THEN file
        ELSE writeJsonFile([settings EXCEPT !.hooks =
                Some([i \in 1..Len(settings.hooks[1]) |->
                        [settings.hooks[1][i] EXCEPT !.list =
                            SelectSeq(@, LAMBDA h : h.hands # hookName)]])])

\* removeHook: every list loses the handlers marked hookName, an emptied event
\* key is deleted; a document without hooks is left unwritten
removeHook(file, hookName) ==
    LET settings == readJsonFile(file)
    IN  IF settings.hooks = None THEN file
        ELSE LET filtered == [i \in 1..Len(settings.hooks[1]) |->
                                [settings.hooks[1][i] EXCEPT !.list =
                                    SelectSeq(@, LAMBDA h : h.hands # hookName)]]
             IN  writeJsonFile([settings EXCEPT !.hooks =
                                    Some(SelectSeq(filtered, LAMBDA e : e.list # <<>>))])

hasHook(file, hookName) ==
    LET hooks == getHooks(file)
    IN  \E i \in 1..Len(hooks) : \E j \in 1..Len(hooks[i].list) : hooks[i].list[j].hands = hookName

----------------------------------------------------------------------------
(* lib/resolver.js: findOrphans *)

Intersects(requiredBy, names) == \E i \in 1..Len(requiredBy) : requiredBy[i] \in names

\* a variant of findOrphans that reports every entry
findOrphansAll(metadata, currentSkillNames) ==
    [c \in {"mcpServers", "agents", "skills"} |-> metadata.resolvedDeps[c]]

\* findOrphans(metadata, currentSkillNames): per category, in the order of the
\* ledger, the entries none of whose requirers is in currentSkillNames
findOrphans(metadata, currentSkillNames) ==
    [c \in {"mcpServers", "agents", "skills"} |->
        SelectSeq(metadata.resolvedDeps[c],
                  LAMBDA info : ~Intersects(info.requiredBy, currentSkillNames))]

----------------------------------------------------------------------------
(* lib/detector.js and lib/status.js *)

\* readdir order of the component directories
SkillOrder == <<"D", "X", "Y">>
AgentOrder == <<"Z">>
HookOrder  == <<"G", "H">>

Detected(order, present) == SelectSeq(order, LAMBDA n : n \in present)

\* fs.readJson(path): the value a file holds, or a throw when the text is not
\* JSON
readJson(file) ==
    IF file.json = None THEN [threw |-> TRUE, value |-> None]
    ELSE [threw |-> FALSE, value |-> file.json]

\* detectSkills, the loop over readdir(skills) (lines 265-292): an entry is
\* [name, isDirectory, skillFile, manifestFile]; manifest stays null when
\* manifest.json is missing or readJson throws
RECURSIVE detectSkills(_, _, _)
detectSkills(entries, i, skills) ==
    IF i > Len(entries) THEN skills
    ELSE LET entry == entries[i]
         IN  detectSkills(entries, i + 1,
                IF ~entry.isDirectory \/ ~entry.skillFile THEN skills
                ELSE Append(skills,
                        [name |-> entry.name,
                         manifest |-> IF entry.manifestFile = None THEN None
                                      ELSE readJson(entry.manifestFile[1]).value]))

\* detectAgents, the loop over readdir(agents) (lines 302-314): an entry is
\* [name, isFile, ext]
RECURSIVE detectAgents(_, _, _)
detectAgents(entries, i, agents) ==
    IF i > Len(entries) THEN agents
    ELSE detectAgents(entries, i + 1,
            IF ~entries[i].isFile \/ entries[i].ext # ".md" THEN agents
            ELSE Append(agents, [name |-> entries[i].name]))

\* a variant of detectJsonEntries that ends the loop at the first file whose
\* text is not JSON
RECURSIVE detectJsonEntriesUntilThrow(_, _, _)
detectJsonEntriesUntilThrow(entries, i, found) ==
    IF i > Len(entries) THEN found
    ELSE IF ~entries[i].isFile \/ entries[i].ext # ".json"
         THEN detectJsonEntriesUntilThrow(entries, i + 1, found)
         ELSE IF readJson(entries[i].file).threw THEN found
              ELSE detectJsonEntriesUntilThrow(entries, i + 1,
                      Append(found, [name |-> entries[i].name,
                                     config |-> readJson(entries[i].file).value[1]]))

\* detectHooks and detectDependencyPool, the loop over readdir(hooks) and over
\* readdir(mcp-servers) (lines 326-348, 364-385): an entry is [name, isFile,
\* ext, file]; a file whose readJson throws is passed by
RECURSIVE detectJsonEntries(_, _, _)
detectJsonEntries(entries, i, found) ==
    IF i > Len(entries) THEN found
    ELSE detectJsonEntries(entries, i + 1,
            IF ~entries[i].isFile \/ entries[i].ext # ".json" THEN found
            ELSE IF readJson(entries[i].file).threw THEN found
                 ELSE Append(found, [name |-> entries[i].name,
                                     config |-> readJson(entries[i].file).value[1]]))

\* detectComponents(rulesPath) and detectDependencyPool(rulesPath) on the
\* directories of rules/.claude as readdir enumerates them
scanRules(disk) ==
    [skills |-> detectSkills(disk.skills, 1, <<>>),
     agents |-> detectAgents(disk.agents, 1, <<>>),
     hooks  |-> detectJsonEntries(disk.hooks, 1, <<>>),
     mcpServers |-> detectJsonEntries(disk.mcpServers, 1, <<>>)]

\* detectComponents / detectDependencyPool on the source tree
detectComponents(src) ==
    [skills |-> Detected(SkillOrder, DOMAIN src.skills),
     agents |-> Detected(AgentOrder, DOMAIN src.agents),
     hooks  |-> Detected(HookOrder, DOMAIN src.hooks)]

\* the directory of a skill in the source tree: its files and, when it has a
\* manifest, manifest.json
SkillDir(skill) ==
    IF skill.manifest = None THEN skill.files
    ELSE [p \in DOMAIN skill.files \cup {"manifest.json"} |->
            IF p = "manifest.json" THEN "manifest" ELSE skill.files[p]]

\* getFileBasedStatus: the ledger only changes the description shown
getFileBasedStatus(src, tgt, category, name) ==
    IF category = "skills"
    THEN IF tgt.skills[name] = None THEN "available"
         ELSE IF computeDirectoryHash(SkillDir(src.skills[name]))
                    = computeDirectoryHash(tgt.skills[name][1])
              THEN "installed" ELSE "outdated"
    ELSE IF tgt.agents[name] = None THEN "available"
         ELSE IF computeFileHash(src.agents[name]) = computeFileHash(tgt.agents[name][1])
              THEN "installed" ELSE "outdated"

\* getTrackedInfo(component): the entry of components, else of resolvedDeps
getTrackedInfo(file, category, name) ==
    IF ObjHas(readMetadata(file).components[category], name)
    THEN Some(ObjGet(readMetadata(file).components[category], name))
    ELSE IF category # "hooks" /\ ObjHas(readMetadata(file).resolvedDeps[category], name)
    THEN Some(ObjGet(readMetadata(file).resolvedDeps[category], name))
    ELSE None

\* a variant of getFileBasedStatusShown: a differing target that the ledger does
\* not track counts as available
getFileBasedStatusTrackedOnly(src, tgt, file, category, name) ==
    IF tgt[category][name] = None
    THEN [status |-> "available", description |-> "available"]
    ELSE IF (IF category = "skills"
             THEN computeDirectoryHash(SkillDir(src.skills[name]))
                    = computeDirectoryHash(tgt.skills[name][1])
             ELSE computeFileHash(src.agents[name]) = computeFileHash(tgt.agents[name][1]))
    THEN [status |-> "installed", description |-> "installed"]
    ELSE IF getTrackedInfo(file, category, name) # None
    THEN [status |-> "outdated", description |-> "outdated"]
    ELSE [status |-> "available", description |-> "(different)"]

\* getFileBasedStatus with the description it returns: the target path, the two
\* hashes, then the ledger, which chooses between the two descriptions of a
\* target that differs (lines 35-75)
getFileBasedStatusShown(src, tgt, file, category, name) ==
    IF tgt[category][name] = None
    THEN [status |-> "available", description |-> "available"]
    ELSE IF (IF category = "skills"
             THEN computeDirectoryHash(SkillDir(src.skills[name]))
                    = computeDirectoryHash(tgt.skills[name][1])
             ELSE computeFileHash(src.agents[name]) = computeFileHash(tgt.agents[name][1]))
    THEN [status |-> "installed", description |-> "installed"]
    ELSE IF getTrackedInfo(file, category, name) # None
    THEN [status |-> "outdated", description |-> "outdated"]
    ELSE [status |-> "outdated", description |-> "(different)"]

\* variants of getHookStatus: the marker is looked at before the environment;
\* a hook with a marker and no ledger entry counts as installed
getHookStatusMarkerFirst(src, tgt, file, env, name) ==
    IF ~hasHook(tgt.settings, name) THEN "available"
    ELSE IF ~(src.hooks[name].requires \subseteq env) THEN "missing-env"
    ELSE IF /\ getTrackedInfo(file, "hooks", name) # None
            /\ getTrackedInfo(file, "hooks", name)[1].hash = computeHash(src.hooks[name].config)
         THEN "installed" ELSE "outdated"

getHookStatusUntracked(src, tgt, file, env, name) ==
    IF ~(src.hooks[name].requires \subseteq env) THEN "missing-env"
    ELSE IF ~hasHook(tgt.settings, name) THEN "available"
    ELSE IF \/ getTrackedInfo(file, "hooks", name) = None
            \/ getTrackedInfo(file, "hooks", name)[1].hash = computeHash(src.hooks[name].config)
         THEN "installed" ELSE "outdated"

\* getHookStatus: a missing environment variable comes first, then the marker in
\* the settings document, then the hash the ledger has for the hook
getHookStatus(src, tgt, file, env, name) ==
    IF ~(src.hooks[name].requires \subseteq env) THEN "missing-env"
    ELSE IF ~hasHook(tgt.settings, name) THEN "available"
    ELSE IF /\ getTrackedInfo(file, "hooks", name) # None
            /\ getTrackedInfo(file, "hooks", name)[1].hash = computeHash(src.hooks[name].config)
         THEN "installed" ELSE "outdated"

\* rules/.claude/<directory>/<file>
SourcePath(category, name) ==
    CASE category = "skills"     -> <<"rules", ".claude", "skills", name>>
      [] category = "agents"     -> <<"rules", ".claude", "agents", name, ".md">>
      [] category = "hooks"      -> <<"rules", ".claude", "hooks", name, ".json">>
      [] category = "mcpServers" -> <<"rules", ".claude", "mcp-servers", name, ".json">>

----------------------------------------------------------------------------
(* cli.js: class Hands *)

\* fs.pathExists(sourcePath) on the source tree as it is when the component is
\* installed
pathExists(src, category, name) == name \in DOMAIN src[category]

\* installFileComponent once the source is found (lines 312-328): an existing
\* agent file that differs is copied to <target>.local first.  For a skill both
\* computeFileHash calls are made on directories, fail and give null, so no
\* backup is taken; fs.copy then writes the source files, but manifest.json,
\* over the target directory.
copyComponent(tgt, src, category, name) ==
    IF category = "agents"
    THEN LET content == src.agents[name]
             old == tgt.agents[name]
             backed == IF old # None /\ computeFileHash(content) # computeFileHash(old[1])
                       THEN [tgt EXCEPT !.backups[name] = Some(old[1])]
                       ELSE tgt
         IN  [backed EXCEPT !.agents[name] = Some(content)]
    ELSE LET dir == SkillDir(src.skills[name])
             copied == [q \in DOMAIN dir \ {"manifest.json"} |-> dir[q]]
             old == tgt.skills[name]
         IN  [tgt EXCEPT !.skills[name] =
                Some(IF old = None THEN copied
                     ELSE [q \in DOMAIN old[1] \cup DOMAIN copied |->
                             IF q \in DOMAIN copied THEN copied[q] ELSE old[1][q]])]

\* a variant of installFileComponent that clears the target when the source is
\* not found
installFileComponentClearing(tgt, src, category, name) ==
    IF ~pathExists(src, category, name)
    THEN [tgt EXCEPT ![category][name] = None]
    ELSE copyComponent(tgt, src, category, name)

\* installFileComponent (lines 303-329): nothing is done, and false is returned,
\* when the source is not found (lines 307-310); the value returned is
\* pathExists(src, category, name)
installFileComponent(tgt, src, category, name) ==
    IF ~pathExists(src, category, name) THEN tgt
    ELSE copyComponent(tgt, src, category, name)

uninstallFileComponent(tgt, category, name) ==
    IF category = "agents" THEN [tgt EXCEPT !.agents[name] = None]
    ELSE [tgt EXCEPT !.skills[name] = None]

\* the hash syncComponents records for a file-based component
SourceHash(src, category, name) ==
    IF category = "skills" THEN computeDirectoryHash(SkillDir(src.skills[name]))
    ELSE computeFileHash(src.agents[name])

\* the files a run writes, copies over or removes: the ledger, the two shared
\* JSON documents, and <<category, name>> for a component file or directory
LedgerFile   == <<"file", ".hands-meta.json">>
ConfigFile   == <<"file", "config.json">>
SettingsFile == <<"file", "settings.json">>

\* Hands.installDependencies, the loop over resolution.mcpServers (lines 561-567)
RECURSIVE installMcpDependencies(_, _, _, _, _)
installMcpDependencies(w, src, deps, i, now) ==
    IF i > Len(deps) THEN w
    ELSE installMcpDependencies(
            [target |-> [w.target EXCEPT !.config =
                            addMcpServer(@, deps[i].name, src.mcp[deps[i].name])],
             ledger |-> trackDependency(w.ledger, "mcpServers", deps[i].name,
                            computeHash(src.mcp[deps[i].name]),
                            SourcePath("mcpServers", deps[i].name), deps[i].requiredBy, now),
             writes |-> w.writes \cup {ConfigFile, LedgerFile}],
            src, deps, i + 1, now)

\* Hands.installDependencies, the loop over resolution.agents (lines 570-577)
RECURSIVE installAgentDependencies(_, _, _, _, _)
installAgentDependencies(w, src, deps, i, now) ==
    IF i > Len(deps) THEN w
    ELSE installAgentDependencies(
            [target |-> installFileComponent(w.target, src, "agents", deps[i].name),
             ledger |-> IF ~pathExists(src, "agents", deps[i].name) THEN w.ledger
                        ELSE trackDependency(w.ledger, "agents", deps[i].name,
                                computeFileHash(src.agents[deps[i].name]),
                                SourcePath("agents", deps[i].name), deps[i].requiredBy, now),
             writes |-> IF ~pathExists(src, "agents", deps[i].name) THEN w.writes
                        ELSE w.writes \cup {<<"agents", deps[i].name>>, LedgerFile}],
            src, deps, i + 1, now)

\* Hands.installDependencies: endpoints, then agents (lines 559-578)
installDependencies(w, src, disk, resolution, now) ==
    installAgentDependencies(
        installMcpDependencies(w, src, resolution.mcpServers, 1, now),
        disk, resolution.agents, 1, now)

\* the loop over resolution.skills (lines 485-491)
RECURSIVE installSkillDependencies(_, _, _, _, _)
installSkillDependencies(w, src, deps, i, now) ==
    IF i > Len(deps) THEN w
    ELSE installSkillDependencies(
            [target |-> installFileComponent(w.target, src, "skills", deps[i].name),
             ledger |-> IF ~pathExists(src, "skills", deps[i].name) THEN w.ledger
                        ELSE trackDependency(w.ledger, "skills", deps[i].name,
                                computeDirectoryHash(SkillDir(src.skills[deps[i].name])),
                                SourcePath("skills", deps[i].name), deps[i].requiredBy, now),
             writes |-> IF ~pathExists(src, "skills", deps[i].name) THEN w.writes
                        ELSE w.writes \cup {<<"skills", deps[i].name>>, LedgerFile}],
            src, deps, i + 1, now)

\* the loop over selected[category] (lines 499-510); status is the status
\* computed before the selection was made
RECURSIVE installSelected(_, _, _, _, _, _, _)
installSelected(w, src, category, selectedNames, i, status, now) ==
    IF i > Len(selectedNames) THEN w
    ELSE installSelected(
            IF status[category][selectedNames[i]] \in {"available", "outdated"}
            THEN [target |-> installFileComponent(w.target, src, category, selectedNames[i]),
                  ledger |-> IF ~pathExists(src, category, selectedNames[i]) THEN w.ledger
                             ELSE trackInstall(w.ledger, category, selectedNames[i],
                                    SourceHash(src, category, selectedNames[i]),
                                    SourcePath(category, selectedNames[i]), now),
                  writes |-> IF ~pathExists(src, category, selectedNames[i]) THEN w.writes
                             ELSE w.writes \cup {<<category, selectedNames[i]>>, LedgerFile}]
            ELSE w,
            src, category, selectedNames, i + 1, status, now)

\* a variant of the loop over allInCategory that leaves the outdated components
RECURSIVE removeUnselectedInstalled(_, _, _, _, _, _)
removeUnselectedInstalled(w, category, selectedNames, allInCategory, i, status) ==
    IF i > Len(allInCategory) THEN w
    ELSE removeUnselectedInstalled(
            IF /\ ~InSeq(selectedNames, allInCategory[i])
               /\ status[category][allInCategory[i]] = "installed"
            THEN [target |-> uninstallFileComponent(w.target, category, allInCategory[i]),
                  ledger |-> trackUninstall(w.ledger, category, allInCategory[i]),
                  writes |-> w.writes \cup {<<category, allInCategory[i]>>, LedgerFile}]
            ELSE w,
            category, selectedNames, allInCategory, i + 1, status)

\* the loop over allInCategory (lines 513-520)
RECURSIVE removeUnselected(_, _, _, _, _, _)
removeUnselected(w, category, selectedNames, allInCategory, i, status) ==
    IF i > Len(allInCategory) THEN w
    ELSE removeUnselected(
            IF /\ ~InSeq(selectedNames, allInCategory[i])
               /\ status[category][allInCategory[i]] \in {"installed", "outdated"}
            THEN [target |-> uninstallFileComponent(w.target, category, allInCategory[i]),
                  ledger |-> trackUninstall(w.ledger, category, allInCategory[i]),
                  writes |-> w.writes \cup {<<category, allInCategory[i]>>, LedgerFile}]
            ELSE w,
            category, selectedNames, allInCategory, i + 1, status)

\* one category of the loop over ['skills', 'agents'] (lines 494-521)
syncCategory(w, src, category, selectedNames, allInCategory, status, now) ==
    removeUnselected(
        installSelected(w, src, category, selectedNames, 1, status, now),
        category, selectedNames, allInCategory, 1, status)

\* syncHooks, the loop over selectedHooks (merger.js lines 177-192)
RECURSIVE mergeSelectedHooks(_, _, _, _, _)
mergeSelectedHooks(w, src, selectedHooks, i, now) ==
    IF i > Len(selectedHooks) THEN w
    ELSE mergeSelectedHooks(
            [target |-> [w.target EXCEPT !.settings =
                            mergeHook(@, selectedHooks[i], src.hooks[selectedHooks[i]].config)],
             ledger |-> trackInstall(w.ledger, "hooks", selectedHooks[i],
                            computeHash(src.hooks[selectedHooks[i]].config),
                            SourcePath("hooks", selectedHooks[i]), now),
             writes |-> w.writes \cup {SettingsFile, LedgerFile}],
            src, selectedHooks, i + 1, now)

\* syncHooks, the loop over Object.keys(trackedHooks) (merger.js lines 194-200)
RECURSIVE removeUnselectedHooks(_, _, _, _)
removeUnselectedHooks(w, selectedHooks, trackedHooks, i) ==
    IF i > Len(trackedHooks) THEN w
    ELSE removeUnselectedHooks(
            IF ~InSeq(selectedHooks, trackedHooks[i].name)
            THEN [target |-> [w.target EXCEPT !.settings = removeHook(@, trackedHooks[i].name)],
                  ledger |-> trackUninstall(w.ledger, "hooks", trackedHooks[i].name),
                  writes |-> w.writes \cup {LedgerFile} \cup
                             IF readJsonFile(w.target.settings).hooks = None
                             THEN {} ELSE {SettingsFile}]
            ELSE w,
            selectedHooks, trackedHooks, i + 1)

\* a variant of syncHooks without the loop over the tracked hooks
syncHooksMergeOnly(w, src, selectedHooks, trackedHooks, now) ==
    mergeSelectedHooks(w, src, selectedHooks, 1, now)

\* syncHooks(targetFile, selectedHooks, trackedHooks) (merger.js lines 173-203)
\* syncHooks, what the loop over selectedHooks pushes to result.added and
\* result.updated (merger.js lines 177-192); file is settings.json as the loop
\* finds it
RECURSIVE reportSelectedHooks(_, _, _, _, _, _)
reportSelectedHooks(file, src, selectedHooks, i, trackedHooks, result) ==
    IF i > Len(selectedHooks) THEN result
    ELSE LET name == selectedHooks[i]
             isNew == ~hasHook(file, name)
             newHash == computeHash(src.hooks[name].config)
         IN  reportSelectedHooks(mergeHook(file, name, src.hooks[name].config),
                src, selectedHooks, i + 1, trackedHooks,
                IF isNew THEN [result EXCEPT !.added = Append(@, name)]
                ELSE IF ObjHas(trackedHooks, name) /\ ObjGet(trackedHooks, name).hash # newHash
                     THEN [result EXCEPT !.updated = Append(@, name)]
                     ELSE result)

syncHooks(w, src, selectedHooks, trackedHooks, now) ==
    removeUnselectedHooks(mergeSelectedHooks(w, src, selectedHooks, 1, now),
                          selectedHooks, trackedHooks, 1)

\* cleanupOrphans, the skills kept (lines 585-592): one pass over
\* resolvedDeps.skills in the order of the ledger
RECURSIVE keepNeeded(_, _, _)
keepNeeded(currentSkillNames, resolvedSkillDeps, i) ==
    IF i > Len(resolvedSkillDeps) THEN currentSkillNames
    ELSE keepNeeded(
            IF Intersects(resolvedSkillDeps[i].requiredBy, currentSkillNames)
            THEN currentSkillNames \cup {resolvedSkillDeps[i].name}
            ELSE currentSkillNames,
            resolvedSkillDeps, i + 1)

retainedSkills(metadata, selectedSkills) ==
    keepNeeded(Range(selectedSkills), metadata.resolvedDeps.skills, 1)

\* cleanupOrphans, first half (lines 584-594)
orphansOf(file, selectedSkills) ==
    findOrphans(readMetadata(file), retainedSkills(readMetadata(file), selectedSkills))

\* cleanupOrphans, the three loops over the orphans of one category (lines
\* 596-648); yes is the set of <<category, name>> the user confirms when asked
RECURSIVE removeOrphans(_, _, _, _, _)
removeOrphans(w, category, orphans, i, yes) ==
    IF i > Len(orphans) THEN w
    ELSE removeOrphans(
            IF <<category, orphans[i].name>> \in yes
            THEN [target |-> CASE category = "mcpServers" ->
                                    [w.target EXCEPT !.config = removeMcpServer(@, orphans[i].name)]
                               [] category = "agents" ->
                                    [w.target EXCEPT !.agents[orphans[i].name] = None]
                               [] category = "skills" ->
                                    [w.target EXCEPT !.skills[orphans[i].name] = None],
                  ledger |-> removeDependency(w.ledger, category, orphans[i].name),
                  writes |-> w.writes \cup {LedgerFile} \cup
                             CASE category = "mcpServers" -> {ConfigFile}
                               [] category = "agents" ->
                                    IF w.target.agents[orphans[i].name] = None THEN {}
                                    ELSE {<<"agents", orphans[i].name>>}
                               [] category = "skills" ->
                                    IF w.target.skills[orphans[i].name] = None THEN {}
                                    ELSE {<<"skills", orphans[i].name>>}]
            ELSE w,
            category, orphans, i + 1, yes)

\* the loops over orphans.mcpServers, orphans.agents and orphans.skills
removeAllOrphans(w, orphans, yes) ==
    removeOrphans(
        removeOrphans(
            removeOrphans(w, "mcpServers", orphans.mcpServers, 1, yes),
            "agents", orphans.agents, 1, yes),
        "skills", orphans.skills, 1, yes)

\* Hands.cleanupOrphans(selectedSkills, results) (lines 583-649)
cleanupOrphans(w, selectedSkills, yes) ==
    removeAllOrphans(w, orphansOf(w.ledger, selectedSkills), yes)

\* lib/env-validator.js validateComponentEnvVars(component).isValid: every
\* environment variable the component names is set
validateComponentEnvVars(component, env) == component.requires \subseteq env

\* the arguments syncComponents hands to resolveDependencies (lines 419-427)
RunInput(src, selected) ==
    [selectedSkills |-> selected.skills, allSkills |-> src.skills,
     selectedAgents |-> Range(selected.agents), allAgents |-> DOMAIN src.agents,
     pool |-> DOMAIN src.mcp]

\* hasDeps (lines 443-445)
hasDeps(resolution) ==
    \/ Len(resolution.mcpServers) > 0
    \/ Len(resolution.agents) > 0
    \/ Len(resolution.skills) > 0

\* the selected hooks that name an environment variable that is not set, and
\* the selected hooks left after the prompts about them (lines 526-540)
needsAnswer(src, selected, ans) ==
    {h \in Range(selected.hooks) : ~validateComponentEnvVars(src.hooks[h], ans.env)}

\* a variant of keptHooks that keeps every selected hook
keptHooksAll(src, selected, ans) == selected.hooks

keptHooks(src, selected, ans) ==
    SelectSeq(selected.hooks,
              LAMBDA h : h \notin needsAnswer(src, selected, ans) \/ h \in ans.anyway)

NoOrphans == [c \in {"mcpServers", "agents", "skills"} |-> <<>>]

\* what a run has done and shown when it reaches the orphan cleanup
reachedCleanup(w, src, selected, ans, resolution) ==
    [w |-> w, resolution |-> resolution, aborted |-> FALSE,
     hasDeps |-> hasDeps(resolution),
     needsAnswer |-> needsAnswer(src, selected, ans),
     orphans |-> orphansOf(w.ledger, selected.skills)]

\* Sync hooks (lines 524-548)
syncSelectedHooks(w, src, selected, ans, now) ==
    IF Len(detectComponents(src).hooks) > 0
    THEN syncHooks(w, src, keptHooks(src, selected, ans),
                   getTrackedComponents(w.ledger, "hooks"), now)
    ELSE w

\* Confirm and install dependencies (lines 447-482)
confirmDependencies(w, src, disk, ans, now, resolution) ==
    IF hasDeps(resolution) /\ ans.proceed
    THEN installDependencies(w, src, disk, resolution, now) ELSE w

\* syncComponents from the result of resolveDependencies to the orphan cleanup
\* (lines 428-548); src is the source tree as it was scanned, disk the source
\* tree as it is when the components are installed
syncResolved(w, src, disk, status, selected, ans, now, resolution) ==
    IF Len(resolution.errors) > 0
    THEN [w |-> w, resolution |-> resolution, aborted |-> TRUE, hasDeps |-> FALSE,
          needsAnswer |-> {}, orphans |-> NoOrphans]
    ELSE reachedCleanup(
            syncSelectedHooks(
                syncCategory(
                    syncCategory(
                        installSkillDependencies(
                            confirmDependencies(w, src, disk, ans, now, resolution),
                            disk, resolution.skills, 1, now),
                        disk, "skills", selected.skills, detectComponents(src).skills,
                        status, now),
                    disk, "agents", selected.agents, detectComponents(src).agents,
                    status, now),
                src, selected, ans, now),
            src, selected, ans, resolution)

\* syncComponents up to the orphan cleanup (lines 402-548); status is
\* allComponents' status, ans the answers to the prompts that are shown
syncUntilOrphans(w, src, disk, status, selected, ans, now) ==
    syncResolved(w, src, disk, status, selected, ans, now,
                 resolveDependencies(RunInput(src, selected)))

\* the call of cleanupOrphans that ends syncComponents (line 551)
finishSync(u, selected, yes) ==
    IF u.aborted THEN u ELSE [u EXCEPT !.w = cleanupOrphans(u.w, selected.skills, yes)]

\* syncComponents(selectedComponents, allComponents, dependencyPool)
syncComponents(w, src, disk, status, selected, ans, now) ==
    finishSync(syncUntilOrphans(w, src, disk, status, selected, ans, now), selected, ans.yes)

----------------------------------------------------------------------------
(* resolveDependencies as a function of its argument *)

Manifests ==
    {None} \cup
    {Some(m) : m \in [mcpServers : {<<>>, <<"E">>},
                      agent      : {"", "Z"},
                      skills     : DistinctSeqs(SkillNames, MaxDeps)]}

\* every manifest assignment is drawn, so the selection is drawn up to renaming
Selections == {<<>>, <<"X">>, <<"X", "Y">>, <<"X", "Y", "D">>}

InitResolve ==
    /\ \E sel \in Selections, all \in [SkillNames -> [manifest : Manifests]],
          aa \in SUBSET AgentNames, pool \in SUBSET McpNames :
          \E sa \in SUBSET aa :
             rin = [selectedSkills |-> sel, allSkills |-> all, selectedAgents |-> sa,
                    allAgents |-> aa, pool |-> pool]
    /\ rout = None /\ tcall = <<>>
    /\ source = 0 /\ target = 0 /\ ledger = 0 /\ clock = 0 /\ last = 0 /\ edits = 0

ResolveCall ==
    /\ rout = None
    /\ \E st \in {resolveWalks(rin)} :
          rout' = Some(resolutionResult(st)) /\ tcall' = st.walks
    /\ UNCHANGED <<source, target, ledger, clock, last, rin, edits>>

SpecResolve == InitResolve /\ [][ResolveCall]_vars

\* the manifest skill edges that stay inside the universe
DeclaredSkills(in, s) ==
    IF in.allSkills[s].manifest = None THEN {}
    ELSE Range(in.allSkills[s].manifest[1].skills) \cap DOMAIN in.allSkills

RECURSIVE ReachFrom(_, _)
ReachFrom(in, S) ==
    LET next == S \cup UNION {DeclaredSkills(in, s) : s \in S}
    IN  IF next = S THEN S ELSE ReachFrom(in, next)

\* the selected skills and the skills reachable from them
Reachable(in) == ReachFrom(in, Range(in.selectedSkills))

\* s lies on a cycle of skill edges
OnCycle(in, s) == s \in ReachFrom(in, DeclaredSkills(in, s))

Declares(in, s, kind, name) ==
    /\ in.allSkills[s].manifest # None
    /\ LET m == in.allSkills[s].manifest[1]
       IN  CASE kind = "mcpServers" -> InSeq(m.mcpServers, name)
             [] kind = "agents"     -> m.agent = name
             [] kind = "skills"     -> InSeq(m.skills, name)

\* C1: whenever a selected skill reaches a skill that lies on a cycle of manifest
\* skill edges, the result of resolveDependencies carries a circular-dependency error.
C1_CycleReported ==
    (rout # None /\ \E s \in Reachable(rin) : OnCycle(rin, s))
        => rout[1].errors # <<>>

\* C9: every endpoint, agent and skill of the result is required by exactly the
\* selected-or-reachable skills whose manifest declares it.
C9_RequiredByExact ==
    rout # None =>
        \A kind \in {"mcpServers", "agents", "skills"} :
            \A i \in 1..Len(rout[1][kind]) :
                LET dep == rout[1][kind][i]
                IN  Range(dep.requiredBy) =
                        {s \in Reachable(rin) : Declares(rin, s, kind, dep.name)}

\* a dependency shared by two skills came out of the resolution
C9_Witness ==
    /\ rout # None
    /\ \E kind \in {"mcpServers", "agents", "skills"} :
          \E i \in 1..Len(rout[1][kind]) : Len(rout[1][kind][i].requiredBy) >= 2

\* the names of one of the result's lists
ResolvedNames(r, kind) == {r[kind][i].name : i \in 1..Len(r[kind])}

\* the dependencies of one kind that skill s declares and the universe holds
DeclaredIn(in, s, kind) ==
    IF in.allSkills[s].manifest = None THEN {}
    ELSE LET m == in.allSkills[s].manifest[1]
         IN  CASE kind = "agents" -> {m.agent} \cap in.allAgents
               [] kind = "skills" -> Range(m.skills) \cap DOMAIN in.allSkills

SelectedOf(in, kind) ==
    IF kind = "agents" THEN in.selectedAgents ELSE Range(in.selectedSkills)

\* C33: no selected agent or skill is in the agents or skills of the result,
\* whichever skills declare it; and every selected skill is walked, so that each
\* agent and skill it declares is in the result unless it is selected itself.
C33_SelectedNotResolved ==
    rout # None =>
        \A kind \in {"agents", "skills"} :
            /\ ResolvedNames(rout[1], kind) \cap SelectedOf(rin, kind) = {}
            /\ \A s \in Range(rin.selectedSkills) :
                  /\ InSeq(tcall, s)
                  /\ DeclaredIn(rin, s, kind) \ SelectedOf(rin, kind)
                        \subseteq ResolvedNames(rout[1], kind)

\* the universes told apart by their skill edges alone, and by the agent edge
SkillEdges ==
    {None} \cup
    {Some(m) : m \in [mcpServers : {<<>>},
                      agent      : {"", "Z"},
                      skills     : DistinctSeqs(SkillNames, MaxDeps)]}

\* no call yet; clock = 1 says that the arguments in rin are those of a call
InitWalk ==
    /\ rin = [selectedSkills |-> <<>>, allSkills |-> [s \in SkillNames |-> [manifest |-> None]],
              selectedAgents |-> {}, allAgents |-> AgentNames, pool |-> {}]
    /\ rout = None /\ tcall = <<>> /\ clock = 0
    /\ source = 0 /\ target = 0 /\ ledger = 0 /\ last = 0 /\ edits = 0

\* the caller passes a universe and a selection
CallResolve ==
    /\ clock = 0 /\ clock' = 1
    /\ \E sel \in Selections, all \in [SkillNames -> [manifest : SkillEdges]] :
          rin' = [rin EXCEPT !.selectedSkills = sel, !.allSkills = all]
    /\ UNCHANGED <<source, target, ledger, last, rout, tcall, edits>>

\* resolveDependencies runs to its return statement
ResolveReturn == clock = 1 /\ ResolveCall

NextWalk == CallResolve \/ ResolveReturn

\* once called, the function is not kept from running
SpecResolveFair == InitWalk /\ [][NextWalk]_vars /\ WF_vars(ResolveReturn)

\* C35: resolveDependencies returns for every universe and selection, manifests
\* whose skill edges form a cycle or name their own skill included, and it reads
\* the manifest of each skill at most once: of the skills the selection reaches.
C35_TerminatesWalkingOnce ==
    /\ (clock = 1) ~> (rout # None)
    /\ [](rout # None => NoDup(tcall) /\ Range(tcall) = Reachable(rin))

\* the call returned from a universe where a selected skill names itself and
\* another lies on a cycle of two
C35_Witness ==
    /\ rout # None
    /\ InSeq(rin.selectedSkills, "X")
    /\ "X" \in DeclaredIn(rin, "X", "skills")
    /\ "D" \in DeclaredIn(rin, "Y", "skills") /\ "Y" \in DeclaredIn(rin, "D", "skills")
    /\ InSeq(tcall, "Y") /\ InSeq(tcall, "D")

\* X declares the selected skill Y and the selected agent Z, and Y's own
\* dependency D, which is not selected, came out of the resolution
C33_Witness ==
    /\ rout # None
    /\ rin.selectedSkills = <<"X", "Y">> /\ rin.selectedAgents = {"Z"}
    /\ "Y" \in DeclaredIn(rin, "X", "skills") /\ "Z" \in DeclaredIn(rin, "X", "agents")
    /\ "D" \in DeclaredIn(rin, "Y", "skills")
    /\ "D" \in ResolvedNames(rout[1], "skills")

----------------------------------------------------------------------------
(* The tracker's mutating calls, in any order *)

MaxReq == 1         \* longest requiredBy argument drawn for trackDependency

Hashes == {"h1", "h2"}
TrackedComps == {<<"skills", "X">>, <<"agents", "Z">>}
TrackedDeps  == {<<"mcpServers", "E">>, <<"agents", "Z">>}

NoCall == [op |-> "none"]

InitTracker ==
    /\ ledger = None
    /\ clock = 0
    /\ tcall = NoCall
    /\ source = 0 /\ target = 0 /\ last = 0 /\ rin = 0 /\ rout = 0 /\ edits = 0

TrackInstall ==
    \E c \in TrackedComps, h \in Hashes :
        /\ clock < MaxCalls
        /\ clock' = clock + 1
        /\ ledger' = trackInstall(ledger, c[1], c[2], h, SourcePath(c[1], c[2]), clock')
        /\ tcall' = [op |-> "trackInstall", category |-> c[1], name |-> c[2], hash |-> h,
                     requiredBy |-> <<>>, before |-> CompEntry(ledger, c[1], c[2])]
        /\ UNCHANGED <<source, target, last, rin, rout, edits>>

TrackUninstall ==
    \E c \in TrackedComps :
        /\ clock < MaxCalls
        /\ clock' = clock + 1
        /\ ledger' = trackUninstall(ledger, c[1], c[2])
        /\ tcall' = [op |-> "trackUninstall", category |-> c[1], name |-> c[2], hash |-> "",
                     requiredBy |-> <<>>, before |-> CompEntry(ledger, c[1], c[2])]
        /\ UNCHANGED <<source, target, last, rin, rout, edits>>

TrackDependency ==
    \E d \in TrackedDeps, h \in Hashes, R \in SeqsUpTo({"X", "Y"}, MaxReq) :
        /\ clock < MaxCalls
        /\ clock' = clock + 1
        /\ ledger' = trackDependency(ledger, d[1], d[2], h, SourcePath(d[1], d[2]), R, clock')
        /\ tcall' = [op |-> "trackDependency", category |-> d[1], name |-> d[2], hash |-> h,
                     requiredBy |-> R, before |-> DepEntry(ledger, d[1], d[2])]
        /\ UNCHANGED <<source, target, last, rin, rout, edits>>

RemoveDependency ==
    \E d \in TrackedDeps :
        /\ clock < MaxCalls
        /\ clock' = clock + 1
        /\ ledger' = removeDependency(ledger, d[1], d[2])
        /\ tcall' = [op |-> "removeDependency", category |-> d[1], name |-> d[2], hash |-> "",
                     requiredBy |-> <<>>, before |-> DepEntry(ledger, d[1], d[2])]
        /\ UNCHANGED <<source, target, last, rin, rout, edits>>

NextTracker == TrackInstall \/ TrackUninstall \/ TrackDependency \/ RemoveDependency

SpecTracker == InitTracker /\ [][NextTracker]_vars

\* the arguments of a call, without the entry it met
CallArgs(c) == <<c.op, c.category, c.name, c.hash, c.requiredBy>>

\* C8 (state part): after trackDependency the entry has the given hash and source
\* path and a duplicate-free requiredBy; on an absent entry requiredBy is the given
\* names and installedAt the time of the call, on an existing entry installedAt is
\* kept and requiredBy is the union of the old and the given names.
C8_AfterTrackDependency ==
    tcall.op = "trackDependency" =>
        LET got == DepEntry(ledger, tcall.category, tcall.name)
        IN  /\ got # None
            /\ got[1].hash = tcall.hash
            /\ got[1].sourcePath = SourcePath(tcall.category, tcall.name)
            /\ NoDup(got[1].requiredBy)
            /\ IF tcall.before = None
               THEN /\ Range(got[1].requiredBy) = Range(tcall.requiredBy)
                    /\ got[1].installedAt = clock
               ELSE /\ got[1].installedAt = tcall.before[1].installedAt
                    /\ Range(got[1].requiredBy) =
                         Range(tcall.before[1].requiredBy) \cup Range(tcall.requiredBy)

\* C8 (step part): a trackDependency call that repeats the previous call leaves
\* the entry as that call left it.
C8_RepeatKeepsEntry ==
    (tcall.op = "trackDependency" /\ CallArgs(tcall') = CallArgs(tcall))
        => DepEntry(ledger', tcall.category, tcall.name)
             = DepEntry(ledger, tcall.category, tcall.name)

\* C8: trackDependency keeps installedAt, unions requiredBy without duplicates,
\* replaces hash and sourcePath, creates an absent entry with the given names, and
\* is idempotent.
C8_TrackDependency == [](C8_AfterTrackDependency) /\ [][C8_RepeatKeepsEntry]_vars

\* trackDependency met an entry made at an earlier time and added a name to it
C8_Witness ==
    /\ tcall.op = "trackDependency"
    /\ tcall.before # None
    /\ tcall.before[1].installedAt < clock
    /\ tcall.before[1].hash # tcall.hash
    /\ Range(tcall.requiredBy) \ Range(tcall.before[1].requiredBy) # {}
    /\ Range(tcall.before[1].requiredBy) \ Range(tcall.requiredBy) # {}

----------------------------------------------------------------------------
(* Runs of the CLI against one target project, the source tree and the target
   changing between runs *)

Manifest(mcpServers, agent, skills) ==
    Some([mcpServers |-> mcpServers, agent |-> agent, skills |-> skills])

\* the manifests the skills of the source tree go through
SyncManifests ==
    [X |-> {Manifest(<<"E">>, "Z", <<>>), Manifest(<<"E">>, "Z", <<"Y">>)},
     Y |-> {Manifest(<<"E">>, "", <<>>), Manifest(<<"E">>, "", <<"X">>)}]

AgentContents == {"v1", "v2"}

NoRun == [ran |-> FALSE]

\* a fresh target project; the source tree has skills X and Y, agent Z and
\* endpoint E, and no hooks directory; X declares E and Z, Y declares E and X
Init ==
    /\ source = [skills |-> [n \in {"X", "Y"} |->
                                [files |-> [p \in {"SKILL.md"} |-> "v1"],
                                 manifest |-> IF n = "X" THEN Manifest(<<"E">>, "Z", <<>>)
                                              ELSE Manifest(<<"E">>, "", <<"X">>)]],
                 agents |-> [n \in AgentNames |-> "v1"],
                 hooks  |-> <<>>,
                 mcp    |-> [n \in McpNames |-> "url1"]]
    /\ target = [skills   |-> [n \in SkillNames |-> None],
                 agents   |-> [n \in AgentNames |-> None],
                 backups  |-> [n \in AgentNames |-> None],
                 skillBackups |-> [n \in SkillNames |-> None],
                 config   |-> None,
                 settings |-> None]
    /\ ledger = None
    /\ clock = 0
    /\ last = NoRun
    /\ rin = 0 /\ rout = 0 /\ tcall = 0 /\ edits = 0

SubSeqs(order) == {SelectSeq(order, LAMBDA n : n \in S) : S \in SUBSET Range(order)}

OrphanKeys(orphans) ==
    UNION {{<<c, orphans[c][i].name>> : i \in 1..Len(orphans[c])} :
                c \in {"mcpServers", "agents", "skills"}}

\* addStatusToComponents for the file-based components
StatusOf(src, tgt) ==
    [c \in {"skills", "agents"} |->
        [n \in DOMAIN src[c] |-> getFileBasedStatus(src, tgt, c, n)]]

\* the environment variables the hooks of the source tree name
EnvVars(src) == UNION {src.hooks[h].requires : h \in DOMAIN src.hooks}

NoAnswers == [proceed |-> FALSE, env |-> {}, anyway |-> {}, yes |-> {}]

\* the target project as a run finds it
World == [ledger |-> ledger, target |-> target, writes |-> {}]

\* the prompts a run shows before it asks about orphans
promptsShown(src, selected, ans, resolution) ==
    [hasDeps |-> Len(resolution.errors) = 0 /\ hasDeps(resolution),
     needsAnswer |-> IF Len(resolution.errors) > 0 THEN {}
                     ELSE needsAnswer(src, selected, ans)]

\* the end of a run: what it leaves in the target project
RunDone(disk, selected, ans, yes, asked, r) ==
    /\ ledger' = r.w.ledger
    /\ target' = r.w.target
    /\ last' = [ran |-> TRUE, selected |-> selected,
                proceed |-> ans.proceed, aborted |-> r.aborted,
                errors |-> r.resolution.errors,
                orphans |-> OrphanKeys(r.orphans), yes |-> yes,
                presented |-> r.orphans, atCleanup |-> asked.w.ledger,
                env |-> ans.env, anyway |-> ans.anyway, edits |-> edits,
                writes |-> r.w.writes,
                trackedHooks |-> getTrackedComponents(ledger, "hooks"),
                lost |-> {c \in {"skills", "agents"} \X (SkillNames \cup AgentNames) :
                            pathExists(source, c[1], c[2]) /\ ~pathExists(disk, c[1], c[2])}]

\* the orphan prompts: one answer for each orphan presented
RunAsked(disk, selected, ans, now, asked) ==
    \E yes \in SUBSET OrphanKeys(asked.orphans) :
        RunDone(disk, selected, ans, yes, asked, finishSync(asked, selected, yes))

\* the dependency prompt, shown when there are dependencies, and the prompts
\* about hooks whose environment variables are missing
RunShown(disk, selected, env, now, shown) ==
    \E proceed \in {FALSE, shown.hasDeps}, anyway \in SUBSET shown.needsAnswer :
        RunAsked(disk, selected,
                 [proceed |-> proceed, env |-> env, anyway |-> anyway, yes |-> {}], now,
                 syncUntilOrphans(World, source, disk, StatusOf(source, target), selected,
                    [proceed |-> proceed, env |-> env, anyway |-> anyway, yes |-> {}], now))

\* Hands.run() from the scan on: status, selection, syncComponents; answers are
\* given to the prompts that are shown, and to no others; disk is the source
\* tree as syncComponents finds it
RunFrom(disk) ==
    \E skills \in SubSeqs(detectComponents(source).skills),
       agents \in SubSeqs(detectComponents(source).agents),
       hooks \in SubSeqs(detectComponents(source).hooks),
       env \in SUBSET EnvVars(source) :
       RunShown(disk, [skills |-> skills, agents |-> agents, hooks |-> hooks], env, clock + 1,
                promptsShown(source, [skills |-> skills, agents |-> agents, hooks |-> hooks],
                     [NoAnswers EXCEPT !.env = env],
                     resolveDependencies(RunInput(source,
                         [skills |-> skills, agents |-> agents, hooks |-> hooks]))))

\* Hands.run() while nobody touches the source tree
Run ==
    /\ clock < MaxRuns
    /\ clock' = clock + 1
    /\ RunFrom(source)
    /\ UNCHANGED <<source, rin, rout, tcall, edits>>

\* the source tree changes between runs
EditManifest ==
    \E n \in DOMAIN source.skills : \E m \in SyncManifests[n] :
        /\ edits < MaxEdits /\ edits' = edits + 1
        /\ m # source.skills[n].manifest
        /\ source' = [source EXCEPT !.skills[n].manifest = m]
        /\ UNCHANGED <<target, ledger, clock, last, rin, rout, tcall>>

EditAgentSource ==
    \E n \in DOMAIN source.agents : \E c \in AgentContents :
        /\ edits < MaxEdits /\ edits' = edits + 1
        /\ c # source.agents[n]
        /\ source' = [source EXCEPT !.agents[n] = c]
        /\ UNCHANGED <<target, ledger, clock, last, rin, rout, tcall>>

\* the user deletes an installed skill or agent from the target project
DeleteTarget ==
    /\ edits < MaxEdits /\ edits' = edits + 1
    /\ \/ \E n \in SkillNames :
            /\ target.skills[n] # None
            /\ target' = [target EXCEPT !.skills[n] = None]
       \/ \E n \in AgentNames :
            /\ target.agents[n] # None
            /\ target' = [target EXCEPT !.agents[n] = None]
    /\ UNCHANGED <<source, ledger, clock, last, rin, rout, tcall>>

Next == Run \/ EditManifest \/ EditAgentSource \/ DeleteTarget

Spec == Init /\ [][Next]_vars

----------------------------------------------------------------------------
(* Properties of the runs *)

DepCategories == {"mcpServers", "agents", "skills"}

\* the step is a run of the CLI
RunStep == clock' = clock + 1

\* the requiredBy names of a tracked dependency, {} when it is not tracked
RequirersOf(file, category, name) ==
    IF DepEntry(file, category, name) = None THEN {}
    ELSE Range(DepEntry(file, category, name)[1].requiredBy)

\* the endpoint is in the registry document of the target
InRegistry(tgt, name) ==
    /\ readJsonFile(tgt.config).mcpServers # None
    /\ ObjHas(readJsonFile(tgt.config).mcpServers[1], name)

\* the skills a selection reaches in the source tree, and whether one of them
\* declares the dependency
Reached(src, selected) == Reachable(RunInput(src, selected))

Requires(src, selected, kind, name) ==
    \E s \in Reached(src, selected) : Declares(RunInput(src, selected), s, kind, name)

\* C3: no (category, name) has an entry both in components and in resolvedDeps.
C3_OneSection ==
    \A c \in {"skills", "agents"} : \A n \in SkillNames \cup AgentNames :
        ~(CompEntry(ledger, c, n) # None /\ DepEntry(ledger, c, n) # None)

\* C4: X and Y both declare E; when a confirmed run selecting only X is followed
\* by a confirmed run selecting X and Y, E's requiredBy is {X, Y} after it.
C4_BothRequirers ==
    [][(/\ last.ran /\ last.selected.skills = <<"X">> /\ last.proceed
        /\ RunStep
        /\ last'.selected.skills = <<"X", "Y">> /\ last'.proceed
        /\ Declares(RunInput(source, last'.selected), "X", "mcpServers", "E")
        /\ Declares(RunInput(source, last'.selected), "Y", "mcpServers", "E"))
       => (/\ DepEntry(ledger', "mcpServers", "E") # None
           /\ RequirersOf(ledger', "mcpServers", "E") = {"X", "Y"})]_vars

\* the second run of C4 has been made, on an entry that named X alone
C4_Witness ==
    /\ clock = 2
    /\ last.ran /\ last.selected.skills = <<"X", "Y">> /\ last.proceed
    /\ \E i \in 1..Len(getTrackedDependencies(ledger, "mcpServers")) :
          LET e == getTrackedDependencies(ledger, "mcpServers")[i]
          IN  e.name = "E" /\ e.installedAt = 1 /\ e.requiredBy = <<"X", "Y">>

\* the run of C5: E is tracked with requiredBy {X, Y}, X and Y were selected in
\* the run before, and this run selects Y and not X
C5_Deselects ==
    /\ RequirersOf(ledger, "mcpServers", "E") = {"X", "Y"}
    /\ last.ran /\ InSeq(last.selected.skills, "X") /\ InSeq(last.selected.skills, "Y")
    /\ RunStep
    /\ last'.selected.skills = <<"Y">>

\* C5 (as stated): after the run E is in the registry and tracked, and its
\* requiredBy is {Y}; taken for the runs in which Y does not reach X.
C5_ShrinksToY ==
    [][(C5_Deselects /\ "X" \notin Reached(source, last'.selected))
       => (/\ InRegistry(target', "E")
           /\ DepEntry(ledger', "mcpServers", "E") # None
           /\ RequirersOf(ledger', "mcpServers", "E") = {"Y"})]_vars

\* C5 (amended): after the run E is in the registry and tracked, and its
\* requiredBy is still {X, Y}.
C5_KeepsBoth ==
    [][C5_Deselects
       => (/\ InRegistry(target', "E")
           /\ DepEntry(ledger', "mcpServers", "E") # None
           /\ RequirersOf(ledger', "mcpServers", "E") = {"X", "Y"})]_vars

\* the run before selected X and Y and made both E's entry, naming X then Y,
\* and Y's component entry; the last run selected Y alone, which does not reach
\* X, and E is in the registry and still names both
C5_Witness ==
    /\ last.ran /\ last.selected.skills = <<"Y">>
    /\ "X" \notin Reached(source, last.selected)
    /\ InRegistry(target, "E")
    /\ DepEntry(ledger, "mcpServers", "E") # None
    /\ CompEntry(ledger, "skills", "Y") # None
    /\ DepEntry(ledger, "mcpServers", "E")[1].requiredBy = <<"X", "Y">>
    /\ DepEntry(ledger, "mcpServers", "E")[1].installedAt = clock - 1
    /\ CompEntry(ledger, "skills", "Y")[1].installedAt = clock - 1

\* C7: every entry of resolvedDeps has a non-empty requiredBy.
C7_RequiredByNonEmpty ==
    \A c \in DepCategories :
        \A i \in 1..Len(getTrackedDependencies(ledger, c)) :
            getTrackedDependencies(ledger, c)[i].requiredBy # <<>>

\* a run has left an entry in each category of resolvedDeps
C7_Witness ==
    /\ last.ran
    /\ \A c \in DepCategories : getTrackedDependencies(ledger, c) # <<>>

\* C10: when Z is tracked with requiredBy {X} and the run neither selects X nor
\* selects a skill that requires Z, Z is among the orphans presented, and its
\* target and entry are gone when the removal is confirmed.
C10_OrphanPresented ==
    [][(/\ RequirersOf(ledger, "agents", "Z") = {"X"}
        /\ RunStep
        /\ ~InSeq(last'.selected.skills, "X")
        /\ ~Requires(source, last'.selected, "agents", "Z"))
       => (/\ <<"agents", "Z">> \in last'.orphans
           /\ <<"agents", "Z">> \in last'.yes
                => (target'.agents["Z"] = None /\ DepEntry(ledger', "agents", "Z") = None))]_vars

\* C6: while an entry of resolvedDeps exists, its requiredBy never loses a name:
\* a step that leaves the entry in place leaves every name it had.
C6_RequiredByGrows ==
    [][\A c \in DepCategories : \A n \in SkillNames \cup AgentNames \cup McpNames :
          (DepEntry(ledger, c, n) # None /\ DepEntry(ledger', c, n) # None)
              => RequirersOf(ledger, c, n) \subseteq RequirersOf(ledger', c, n)]_vars

\* a call of trackDependency with another name met an entry that had a requirer
C6_Witness ==
    /\ tcall.op = "trackDependency"
    /\ tcall.before # None
    /\ tcall.before[1].requiredBy # <<>>
    /\ Range(tcall.requiredBy) \ Range(tcall.before[1].requiredBy) # {}
    /\ RequirersOf(ledger, tcall.category, tcall.name) = {"X", "Y"}

AllNames == SkillNames \cup AgentNames \cup McpNames

\* C11: in a run, an entry of resolvedDeps that names a skill of the direct
\* selection in its requiredBy is not presented as an orphan and is still in the
\* ledger after the run; no orphan presented names a skill of the direct selection.
C11_RequiredStays ==
    [][RunStep =>
        /\ \A c \in DepCategories : \A n \in AllNames :
              (/\ DepEntry(ledger, c, n) # None
               /\ RequirersOf(ledger, c, n) \cap Range(last'.selected.skills) # {})
                 => (<<c, n>> \notin last'.orphans /\ DepEntry(ledger', c, n) # None)
        /\ \A c \in DepCategories : \A i \in 1..Len(last'.presented[c]) :
              Range(last'.presented[c][i].requiredBy) \cap Range(last'.selected.skills) = {}]_vars

\* a run selecting X alone met E required by Y and X and kept it, while the
\* dependency entry of skill X, required by Y alone, was presented as an orphan
C11_Witness ==
    /\ last.ran /\ last.selected.skills = <<"X">>
    /\ DepEntry(ledger, "mcpServers", "E") # None
    /\ DepEntry(ledger, "mcpServers", "E")[1].requiredBy = <<"Y", "X">>
    /\ DepEntry(ledger, "mcpServers", "E")[1].installedAt = clock - 1
    /\ <<"skills", "X">> \in last.orphans
    /\ <<"mcpServers", "E">> \notin last.orphans

----------------------------------------------------------------------------
(* Runs of the CLI over a chain of skill dependencies *)

\* a fresh target project; the source tree has skills X, Y and D, agent Z and
\* endpoint E; X declares skill Y, Y declares skill D, D declares endpoint E
InitChain ==
    /\ source = [skills |-> [n \in {"X", "Y", "D"} |->
                                [files |-> [p \in {"SKILL.md"} |-> "v1"],
                                 manifest |-> CASE n = "X" -> Manifest(<<>>, "", <<"Y">>)
                                                [] n = "Y" -> Manifest(<<>>, "", <<"D">>)
                                                [] n = "D" -> Manifest(<<"E">>, "", <<>>)]],
                 agents |-> [n \in AgentNames |-> "v1"],
                 hooks  |-> <<>>,
                 mcp    |-> [n \in McpNames |-> "url1"]]
    /\ target = [skills   |-> [n \in SkillNames |-> None],
                 agents   |-> [n \in AgentNames |-> None],
                 backups  |-> [n \in AgentNames |-> None],
                 skillBackups |-> [n \in SkillNames |-> None],
                 config   |-> None,
                 settings |-> None]
    /\ ledger = None
    /\ clock = 0
    /\ last = NoRun
    /\ rin = 0 /\ rout = 0 /\ tcall = 0 /\ edits = 0

SpecChain == InitChain /\ [][Run]_vars

\* the direct selection and every skill of resolvedDeps.skills that a skill of
\* the set requires, to any depth
RECURSIVE RequiredClosure(_, _)
RequiredClosure(resolvedSkillDeps, S) ==
    LET more == S \cup {resolvedSkillDeps[i].name : i \in
                          {j \in 1..Len(resolvedSkillDeps) :
                              Intersects(resolvedSkillDeps[j].requiredBy, S)}}
    IN  IF more = S THEN S ELSE RequiredClosure(resolvedSkillDeps, more)

TransitivelyRetained(file, selectedSkills) ==
    RequiredClosure(readMetadata(file).resolvedDeps.skills, Range(selectedSkills))

\* C12: the retained set of the orphan collection is the direct selection with
\* every skill of resolvedDeps.skills required from it through requiredBy links of
\* any depth, and no orphan presented is required by a skill of that set.
C12_RetainedTransitive ==
    (last.ran /\ ~last.aborted) =>
        /\ retainedSkills(readMetadata(last.atCleanup), last.selected.skills)
             = TransitivelyRetained(last.atCleanup, last.selected.skills)
        /\ \A c \in DepCategories : \A i \in 1..Len(last.presented[c]) :
              ~Intersects(last.presented[c][i].requiredBy,
                          TransitivelyRetained(last.atCleanup, last.selected.skills))

\* what is installed in the target for a dependency: the registry entry of an
\* endpoint, the file of an agent, the directory of a skill; None when absent
InstalledTarget(tgt, c, n) ==
    CASE c = "mcpServers" ->
            IF InRegistry(tgt, n)
            THEN Some(ObjGet(readJsonFile(tgt.config).mcpServers[1], n)) ELSE None
      [] c = "agents" -> tgt.agents[n]
      [] c = "skills" -> tgt.skills[n]

\* C13 (this run): an orphan whose removal is declined has, after the run, the
\* ledger entry and the installed target it had before the run.
C13_DeclinedKept ==
    RunStep =>
        \A o \in last'.orphans \ last'.yes :
            /\ DepEntry(ledger', o[1], o[2]) = DepEntry(ledger, o[1], o[2])
            /\ InstalledTarget(target', o[1], o[2]) = InstalledTarget(target, o[1], o[2])

\* C13 (next run): with the selection of the run before, and nothing changed by
\* hand since, the orphans declined in the run before are presented again.
C13_OfferedAgain ==
    (/\ last.ran /\ RunStep
     /\ last'.selected = last.selected
     /\ last.edits = edits)
        => (last.orphans \ last.yes) \subseteq last'.orphans

\* C13: declining the removal of an orphan leaves its entry and its installed
\* target unchanged by the run, and the next run with the same selection presents
\* it again.
C13_DeclinedUnchanged == [][C13_DeclinedKept /\ C13_OfferedAgain]_vars

----------------------------------------------------------------------------
(* The merger's hook calls on one settings document, in any order *)

MaxHookCalls == 2    \* merger calls in one behaviour

HookNames == {"G", "H"}

Event(eventType, handlers) == [name |-> eventType, handlers |-> handlers]

\* the configs a hook file declares: one handler, a changed handler, two events,
\* two handlers for one event, an empty handler array
HookConfigs ==
    {<<Event("A", <<"a">>)>>, <<Event("A", <<"b">>)>>,
     <<Event("A", <<"a">>), Event("B", <<"a">>)>>,
     <<Event("A", <<"a", "b">>)>>, <<Event("A", <<>>)>>}

\* a handler written by the user carries no marker
UserHandler == [body |-> "u", hands |-> ""]

\* the settings documents a project has before Hands touches it
UserSettings ==
    {None} \cup
    {Some([mcpServers |-> None, hooks |-> h, other |-> "theme"]) :
        h \in {None, Some(<<>>), Some(<<[name |-> "A", list |-> <<UserHandler>>]>>)}}

\* the hook objects handed to syncHooks: {name, category, sourcePath, config}
HookSource(configs) ==
    [hooks |-> [h \in DOMAIN configs |-> [config |-> configs[h], requires |-> {}]]]

InitMerger ==
    /\ \E file \in UserSettings : target = [settings |-> file]
    /\ ledger = None
    /\ clock = 0
    /\ tcall = NoCall
    /\ source = 0 /\ last = 0 /\ rin = 0 /\ rout = 0 /\ edits = 0

MergeHook ==
    \E h \in HookNames, config \in HookConfigs :
        /\ clock < MaxHookCalls
        /\ clock' = clock + 1
        /\ target' = [target EXCEPT !.settings = mergeHook(@, h, config)]
        /\ tcall' = [op |-> "mergeHook", name |-> h, config |-> config,
                     before |-> target.settings]
        /\ UNCHANGED <<source, ledger, last, rin, rout, edits>>

RemoveHook ==
    \E h \in HookNames :
        /\ clock < MaxHookCalls
        /\ clock' = clock + 1
        /\ target' = [target EXCEPT !.settings = removeHook(@, h)]
        /\ tcall' = [op |-> "removeHook", name |-> h, before |-> target.settings]
        /\ UNCHANGED <<source, ledger, last, rin, rout, edits>>

\* what a call of syncHooks leaves, and what it was given
SyncHooksDone(selectedHooks, configs, w) ==
    /\ target' = w.target
    /\ ledger' = w.ledger
    /\ tcall' = [op |-> "syncHooks", selected |-> selectedHooks, configs |-> configs,
                 tracked |-> getTrackedComponents(ledger, "hooks"),
                 before |-> target.settings,
                 result |-> reportSelectedHooks(target.settings, HookSource(configs),
                                selectedHooks, 1, getTrackedComponents(ledger, "hooks"),
                                [added |-> <<>>, updated |-> <<>>])]

SyncHooks ==
    \E selectedHooks \in SubSeqs(HookOrder) :
      \E configs \in [Range(selectedHooks) -> HookConfigs] :
        /\ clock < MaxHookCalls
        /\ clock' = clock + 1
        /\ SyncHooksDone(selectedHooks, configs,
                syncHooks([ledger |-> ledger, target |-> target, writes |-> {}],
                          HookSource(configs),
                          selectedHooks, getTrackedComponents(ledger, "hooks"), clock + 1))
        /\ UNCHANGED <<source, last, rin, rout, edits>>

NextMerger == MergeHook \/ RemoveHook \/ SyncHooks

SpecMerger == InitMerger /\ [][NextMerger]_vars

\* the handler list of an event in a settings file, <<>> when there is none
HandlersOf(file, eventType) ==
    IF ObjHas(getHooks(file), eventType) THEN ObjGet(getHooks(file), eventType).list ELSE <<>>

EventKeys(file) == [i \in 1..Len(getHooks(file)) |-> getHooks(file)[i].name]

MarkedAt(list, hookName) == {i \in 1..Len(list) : list[i].hands = hookName}

\* C14: after mergeHook of a hook that declares a single handler for an event: if
\* the event's list held a handler with the hook's marker at index i, the list has
\* the same length, element i is the new handler with the marker and every other
\* element is as it was; if no element had the marker, the list is the old list
\* with the new handler appended.
C14_ReplaceInPlace ==
    tcall.op = "mergeHook" =>
        \A e \in 1..Len(tcall.config) :
            Len(tcall.config[e].handlers) = 1 =>
                LET old == HandlersOf(tcall.before, tcall.config[e].name)
                    new == HandlersOf(target.settings, tcall.config[e].name)
                    handler == Marked(tcall.config[e].handlers[1], tcall.name)
                IN  IF MarkedAt(old, tcall.name) = {}
                    THEN new = Append(old, handler)
                    ELSE /\ Len(new) = Len(old)
                         /\ \A i \in 1..Len(old) :
                               new[i] = IF i \in MarkedAt(old, tcall.name) THEN handler ELSE old[i]

\* mergeHook changed the handler of a hook that sits between a handler of the
\* user and the handler of another hook
C14_Witness ==
    /\ tcall.op = "mergeHook"
    /\ Len(tcall.config) = 1 /\ Len(tcall.config[1].handlers) = 1
    /\ Len(HandlersOf(tcall.before, "A")) = 3
    /\ MarkedAt(HandlersOf(tcall.before, "A"), tcall.name) = {2}
    /\ HandlersOf(tcall.before, "A")[2].body # tcall.config[1].handlers[1]
    /\ HandlersOf(target.settings, "A")[2] = Marked(tcall.config[1].handlers[1], tcall.name)

\* C15: after removeHook no list holds a handler with the hook's marker, no event
\* key has an empty list, every event's list is the old list without the marked
\* handlers, in the old order of lists and handlers, and the other top-level keys
\* of the document are as they were.
C15_RemoveHook ==
    tcall.op = "removeHook" =>
        /\ ~hasHook(target.settings, tcall.name)
        /\ \A i \in 1..Len(getHooks(target.settings)) : getHooks(target.settings)[i].list # <<>>
        /\ \A i \in 1..Len(getHooks(tcall.before)) :
              LET kept == SelectSeq(getHooks(tcall.before)[i].list,
                                    LAMBDA h : h.hands # tcall.name)
              IN  HandlersOf(target.settings, getHooks(tcall.before)[i].name) = kept
        /\ EventKeys(target.settings)
             = SelectSeq(EventKeys(tcall.before),
                         LAMBDA k : HandlersOf(target.settings, k) # <<>>)
        /\ readJsonFile(target.settings).other = readJsonFile(tcall.before).other
        /\ readJsonFile(target.settings).mcpServers = readJsonFile(tcall.before).mcpServers

\* removeHook met a document in which the hook shared one event with a handler
\* of the user and had another event to itself, and left the first event alone
C15_Witness ==
    /\ tcall.op = "removeHook"
    /\ HandlersOf(tcall.before, "A") = <<UserHandler, Marked("a", tcall.name)>>
    /\ HandlersOf(tcall.before, "B") = <<Marked("a", tcall.name)>>
    /\ readJsonFile(tcall.before).other = "theme"
    /\ EventKeys(target.settings) = <<"A">>
    /\ HandlersOf(target.settings, "A") = <<UserHandler>>

\* C16: after syncHooks every selected hook has an entry in components.hooks with
\* the hash of its config, and every hook that was tracked and is not selected has
\* no marked handler in the document and no entry.
C16_SyncHooks ==
    tcall.op = "syncHooks" =>
        /\ \A h \in Range(tcall.selected) :
              /\ CompEntry(ledger, "hooks", h) # None
              /\ CompEntry(ledger, "hooks", h)[1].hash = computeHash(tcall.configs[h])
        /\ \A i \in 1..Len(tcall.tracked) :
              ~InSeq(tcall.selected, tcall.tracked[i].name) =>
                  /\ ~hasHook(target.settings, tcall.tracked[i].name)
                  /\ CompEntry(ledger, "hooks", tcall.tracked[i].name) = None

\* syncHooks was called with G selected, while H was tracked with a handler in
\* the document and G was tracked with the hash of another config
C16_Witness ==
    /\ tcall.op = "syncHooks"
    /\ tcall.selected = <<"G">>
    /\ ObjHas(tcall.tracked, "H") /\ hasHook(tcall.before, "H")
    /\ ObjHas(tcall.tracked, "G")
    /\ ObjGet(tcall.tracked, "G").hash # computeHash(tcall.configs["G"])
    /\ hasHook(target.settings, "G")

----------------------------------------------------------------------------
(* Runs of the CLI while the files of the source tree change *)

\* the contents the directory of skill X goes through in the source tree
SkillFileSets ==
    {[p \in {"SKILL.md", "notes.md"} |-> "v1"],
     [p \in {"SKILL.md"} |-> "v1"],
     [p \in {"SKILL.md", "notes.md"} |-> IF p = "SKILL.md" THEN "v2" ELSE "v1"]}

\* the configs the file of hook H goes through
SyncHookConfigs == {<<Event("A", <<"a">>)>>, <<Event("A", <<"b">>)>>}

\* a fresh target project; the source tree has skill X with two files, which
\* declares endpoint E and agent Z, agent Z, hook H, which names the environment
\* variable V, and endpoint E
InitFiles ==
    /\ source = [skills |-> [n \in {"X"} |->
                                [files |-> [p \in {"SKILL.md", "notes.md"} |-> "v1"],
                                 manifest |-> Manifest(<<"E">>, "Z", <<>>)]],
                 agents |-> [n \in AgentNames |-> "v1"],
                 hooks  |-> [n \in {"H"} |->
                                [config |-> <<Event("A", <<"a">>)>>, requires |-> {"V"}]],
                 mcp    |-> [n \in McpNames |-> "url1"]]
    /\ target = [skills   |-> [n \in SkillNames |-> None],
                 agents   |-> [n \in AgentNames |-> None],
                 backups  |-> [n \in AgentNames |-> None],
                 skillBackups |-> [n \in SkillNames |-> None],
                 config   |-> None,
                 settings |-> None]
    /\ ledger = None
    /\ clock = 0
    /\ last = NoRun
    /\ rin = 0 /\ rout = 0 /\ tcall = 0 /\ edits = 0

\* files of a skill are edited, added or deleted in the source tree
EditSkillSource ==
    \E n \in DOMAIN source.skills : \E files \in SkillFileSets :
        /\ edits < MaxEdits /\ edits' = edits + 1
        /\ files # source.skills[n].files
        /\ source' = [source EXCEPT !.skills[n].files = files]
        /\ UNCHANGED <<target, ledger, clock, last, rin, rout, tcall>>

\* the file of a hook is edited in the source tree
EditHookSource ==
    \E n \in DOMAIN source.hooks : \E config \in SyncHookConfigs :
        /\ edits < MaxEdits /\ edits' = edits + 1
        /\ config # source.hooks[n].config
        /\ source' = [source EXCEPT !.hooks[n].config = config]
        /\ UNCHANGED <<target, ledger, clock, last, rin, rout, tcall>>

NextFiles == Run \/ EditSkillSource \/ EditAgentSource \/ EditHookSource

SpecFiles == InitFiles /\ [][NextFiles]_vars

\* C17 (one run): after a run that is not aborted the status resolver, given the
\* source tree of the run and the target the run leaves, classifies every
\* selected skill and agent, and every selected hook whose environment variables
\* are set, as installed.
C17_SelectedInstalled ==
    (RunStep /\ ~last'.aborted) =>
        /\ \A n \in Range(last'.selected.skills) :
              getFileBasedStatus(source, target', "skills", n) = "installed"
        /\ \A n \in Range(last'.selected.agents) :
              getFileBasedStatus(source, target', "agents", n) = "installed"
        /\ \A n \in Range(last'.selected.hooks) :
              validateComponentEnvVars(source.hooks[n], last'.env) =>
                  getHookStatus(source, target', ledger', last'.env, n) = "installed"

\* C17: every run that completes leaves every selected component installed,
\* whatever the target held before.
C17_InstalledAfterSync == [][C17_SelectedInstalled]_vars

\* whether the run installs the file-based component: it is directly selected
\* and its target exists with a hash that differs from the source's
Overwrites(category, n) ==
    /\ RunStep
    /\ InSeq(last'.selected[category], n)
    /\ getFileBasedStatus(source, target, category, n) = "outdated"

\* C19 (one run): when the run overwrites an agent file or a skill directory
\* that differs from the source, the content the target had before the run is
\* at <target>.local after it.
C19_BackedUp ==
    /\ \A n \in DOMAIN source.agents :
          Overwrites("agents", n) => target'.backups[n] = target.agents[n]
    /\ \A n \in DOMAIN source.skills :
          Overwrites("skills", n) => target'.skillBackups[n] = target.skills[n]

\* C19: every overwrite of a differing file-based target is preceded by a copy
\* of the target to <target>.local.
C19_BackupBeforeOverwrite == [][C19_BackedUp]_vars

\* the run is given the selection and the answers of the run before, and nothing
\* was changed by hand in between
RepeatsLastRun ==
    /\ last.ran /\ RunStep
    /\ last'.selected = last.selected
    /\ last'.proceed = last.proceed /\ last'.yes = last.yes
    /\ last'.env = last.env /\ last'.anyway = last.anyway
    /\ last.edits = edits

\* C18: a run that repeats the run before writes no file: no component is
\* copied or removed, neither shared JSON document is rewritten, the ledger is
\* not rewritten.
C18_SecondRunWritesNothing == [][RepeatsLastRun => last'.writes = {}]_vars

----------------------------------------------------------------------------
(* readMetadata as a function of the persisted file *)

\* a ledger with an entry in every category, written by another version
StoredLedger ==
    [version |-> "2.0.0", installedBy |-> "hands-2",
     components   |-> [c \in {"skills", "agents", "hooks"} |->
                         <<[name |-> "n", hash |-> "h1", installedAt |-> 1,
                            sourcePath |-> SourcePath(c, "n")]>>],
     resolvedDeps |-> [c \in {"mcpServers", "agents", "skills"} |->
                         <<[name |-> "n", hash |-> "h1", installedAt |-> 1,
                            sourcePath |-> SourcePath(c, "n"), requiredBy |-> <<"X">>]>>]]

Restrict(f, S) == [k \in S |-> f[k]]

\* the ledger with any subset of its top-level keys and, under components and
\* resolvedDeps, any subset of the category keys
PartialLedgers ==
    {[k \in K |->
        CASE k = "components"   -> Restrict(StoredLedger.components, C)
          [] k = "resolvedDeps" -> Restrict(StoredLedger.resolvedDeps, R)
          [] OTHER              -> StoredLedger[k]] :
        K \in SUBSET DOMAIN StoredLedger,
        C \in SUBSET {"skills", "agents", "hooks"},
        R \in SUBSET {"mcpServers", "agents", "skills"}}

\* the file is missing, empty, not JSON, or a JSON object
PersistedStates ==
    {None, Some(Unparsable("")), Some(Unparsable("{"))}
        \cup {Some(Stored(data)) : data \in PartialLedgers}

InitRead ==
    /\ ledger \in PersistedStates
    /\ rout = None
    /\ source = 0 /\ target = 0 /\ clock = 0 /\ last = 0 /\ rin = 0 /\ tcall = 0 /\ edits = 0

ReadMetadata ==
    /\ rout = None
    /\ rout' = Some(readMetadata(ledger))
    /\ UNCHANGED <<source, target, ledger, clock, last, rin, tcall, edits>>

SpecRead == InitRead /\ [][ReadMetadata]_vars

\* the value the schema requires at key, or at key.c: the stored value when the
\* file has the key, the default otherwise
Expected(data, key) ==
    IF key \in DOMAIN data THEN data[key] ELSE createEmptyMetadata[key]

ExpectedIn(data, key, c) ==
    IF key \in DOMAIN data /\ c \in DOMAIN data[key] THEN data[key][c]
    ELSE createEmptyMetadata[key][c]

\* C20: readMetadata returns a ledger with version, installedBy, components
\* (skills, agents, hooks) and resolvedDeps (mcpServers, agents, skills) for every
\* persisted state; a missing, empty or unparsable file gives the empty ledger, and
\* for a JSON object every key stored keeps its value and every key missing has
\* the default.
C20_ReadComplete ==
    rout # None =>
        /\ DOMAIN createEmptyMetadata \subseteq DOMAIN rout[1]
        /\ \A key \in {"components", "resolvedDeps"} :
              DOMAIN createEmptyMetadata[key] \subseteq DOMAIN rout[1][key]
        /\ IF ledger = None THEN rout[1] = createEmptyMetadata
           ELSE IF ledger[1].json = None THEN rout[1] = createEmptyMetadata
           ELSE /\ \A key \in {"version", "installedBy"} :
                      rout[1][key] = Expected(ledger[1].json[1], key)
                /\ \A key \in {"components", "resolvedDeps"} :
                      \A c \in DOMAIN createEmptyMetadata[key] :
                         rout[1][key][c] = ExpectedIn(ledger[1].json[1], key, c)

\* a file with another version, components without hooks and no resolvedDeps
\* was read: version and components.skills are as stored, the rest by default
C20_Witness ==
    /\ rout # None /\ ledger # None
    /\ ledger[1].json # None
    /\ DOMAIN ledger[1].json[1] = {"version", "components"}
    /\ DOMAIN ledger[1].json[1].components = {"skills", "agents"}
    /\ rout[1].version = "2.0.0"
    /\ rout[1].components.skills = StoredLedger.components.skills
    /\ rout[1].components.hooks = <<>>
    /\ rout[1].resolvedDeps = createEmptyMetadata.resolvedDeps

----------------------------------------------------------------------------
(* The frame of the tracker's mutating calls: calls in any order on a ledger
   that holds several entries of one category *)

MaxFrameCalls == 4  \* tracker calls in one behaviour

FrameComps == {<<"skills", "X">>, <<"skills", "Y">>, <<"agents", "Z">>}
FrameDeps  == {<<"skills", "X">>, <<"skills", "Y">>, <<"agents", "Z">>}

InitFrame ==
    /\ ledger = None
    /\ clock = 0
    /\ tcall = NoCall
    /\ source = 0 /\ target = 0 /\ last = 0 /\ rin = 0 /\ rout = 0 /\ edits = 0

FrameTrackInstall ==
    \E c \in FrameComps :
        /\ clock < MaxFrameCalls
        /\ clock' = clock + 1
        /\ ledger' = trackInstall(ledger, c[1], c[2], "h1", SourcePath(c[1], c[2]), clock')
        /\ tcall' = [op |-> "trackInstall", category |-> c[1], name |-> c[2],
                     before |-> CompEntry(ledger, c[1], c[2])]
        /\ UNCHANGED <<source, target, last, rin, rout, edits>>

FrameTrackUninstall ==
    \E c \in FrameComps :
        /\ clock < MaxFrameCalls
        /\ clock' = clock + 1
        /\ ledger' = trackUninstall(ledger, c[1], c[2])
        /\ tcall' = [op |-> "trackUninstall", category |-> c[1], name |-> c[2],
                     before |-> CompEntry(ledger, c[1], c[2])]
        /\ UNCHANGED <<source, target, last, rin, rout, edits>>

FrameTrackDependency ==
    \E d \in FrameDeps :
        /\ clock < MaxFrameCalls
        /\ clock' = clock + 1
        /\ ledger' = trackDependency(ledger, d[1], d[2], "h1", SourcePath(d[1], d[2]),
                                     <<"X">>, clock')
        /\ tcall' = [op |-> "trackDependency", category |-> d[1], name |-> d[2],
                     before |-> DepEntry(ledger, d[1], d[2])]
        /\ UNCHANGED <<source, target, last, rin, rout, edits>>

FrameRemoveDependency ==
    \E d \in FrameDeps :
        /\ clock < MaxFrameCalls
        /\ clock' = clock + 1
        /\ ledger' = removeDependency(ledger, d[1], d[2])
        /\ tcall' = [op |-> "removeDependency", category |-> d[1], name |-> d[2],
                     before |-> DepEntry(ledger, d[1], d[2])]
        /\ UNCHANGED <<source, target, last, rin, rout, edits>>

NextFrame ==
    FrameTrackInstall \/ FrameTrackUninstall \/ FrameTrackDependency \/ FrameRemoveDependency

SpecFrame == InitFrame /\ [][NextFrame]_vars

\* the entries of a ledger section other than the entry of category.name, in
\* the order of the ledger
OtherEntries(section, category, name) ==
    [k \in DOMAIN section |-> IF k = category THEN ObjDel(section[k], name) ELSE section[k]]

\* C21 (one call): trackInstall and trackUninstall leave resolvedDeps and every
\* components entry but the one named as read; trackDependency and
\* removeDependency leave components and every resolvedDeps entry but the one
\* named as read; untracking an absent entry leaves both sections as read.
C21_FrameOfCall ==
    /\ tcall'.op \in {"trackInstall", "trackUninstall"} =>
          /\ readMetadata(ledger').resolvedDeps = readMetadata(ledger).resolvedDeps
          /\ OtherEntries(readMetadata(ledger').components, tcall'.category, tcall'.name)
               = OtherEntries(readMetadata(ledger).components, tcall'.category, tcall'.name)
    /\ tcall'.op \in {"trackDependency", "removeDependency"} =>
          /\ readMetadata(ledger').components = readMetadata(ledger).components
          /\ OtherEntries(readMetadata(ledger').resolvedDeps, tcall'.category, tcall'.name)
               = OtherEntries(readMetadata(ledger).resolvedDeps, tcall'.category, tcall'.name)
    /\ (tcall'.op \in {"trackUninstall", "removeDependency"} /\ tcall'.before = None) =>
          /\ readMetadata(ledger').components = readMetadata(ledger).components
          /\ readMetadata(ledger').resolvedDeps = readMetadata(ledger).resolvedDeps

\* C21: each tracker mutation changes only the entry it names.
C21_OnlyNamedEntry == [][C21_FrameOfCall]_vars

\* trackUninstall removed the entry of skill X from a section that held the
\* entry of skill Y, while resolvedDeps held an entry of skill X
C21_Witness ==
    /\ tcall.op = "trackUninstall" /\ tcall.before # None
    /\ tcall.category = "skills" /\ tcall.name = "X"
    /\ CompEntry(ledger, "skills", "X") = None
    /\ CompEntry(ledger, "skills", "Y") # None
    /\ DepEntry(ledger, "skills", "X") # None

----------------------------------------------------------------------------
(* Two invocations on one target project: each reads the ledger, changes the
   object it read and writes it back, and the reads and writes interleave *)

Invocations == {1, 2}

\* the tracker call an invocation makes
RaceCalls ==
    {[op |-> "trackInstall", category |-> c[1], name |-> c[2]] : c \in FrameComps}
        \cup {[op |-> "trackDependency", category |-> d[1], name |-> d[2]] : d \in FrameDeps}

\* the assignment the call makes on the object it read
applyCall(call, metadata, now) ==
    IF call.op = "trackInstall"
    THEN setComponent(metadata, call.category, call.name, "h1",
                      SourcePath(call.category, call.name), now)
    ELSE setDependency(metadata, call.category, call.name, "h1",
                       SourcePath(call.category, call.name), <<"X">>, now)

InitRace ==
    /\ ledger = None
    /\ clock = 0
    /\ tcall = [p \in Invocations |->
                  [pc |-> "idle", call |-> None, metadata |-> None,
                   readAt |-> 0, wroteAt |-> 0]]
    /\ source = 0 /\ target = 0 /\ last = 0 /\ rin = 0 /\ rout = 0 /\ edits = 0

\* const metadata = await readMetadata(targetDir)
ReadLedger(p) ==
    /\ tcall[p].pc = "idle"
    /\ clock' = clock + 1
    /\ \E call \in RaceCalls :
          tcall' = [tcall EXCEPT ![p] =
                      [pc |-> "read", call |-> Some(call),
                       metadata |-> Some(readMetadata(ledger)),
                       readAt |-> clock', wroteAt |-> 0]]
    /\ UNCHANGED <<source, target, ledger, last, rin, rout, edits>>

\* the assignment on the object read and await writeMetadata(metadata, targetDir)
WriteLedger(p) ==
    /\ tcall[p].pc = "read"
    /\ clock' = clock + 1
    /\ ledger' = writeMetadata(applyCall(tcall[p].call[1], tcall[p].metadata[1], clock'))
    /\ tcall' = [tcall EXCEPT ![p].pc = "done", ![p].wroteAt = clock']
    /\ UNCHANGED <<source, target, last, rin, rout, edits>>

NextRace == \E p \in Invocations : ReadLedger(p) \/ WriteLedger(p)

SpecRace == InitRace /\ [][NextRace]_vars

\* the entry a call assigns, None when the ledger file does not hold it
EntryOf(file, call) ==
    IF call.op = "trackInstall" THEN CompEntry(file, call.category, call.name)
    ELSE DepEntry(file, call.category, call.name)

BothDone(p, q) ==
    /\ p # q /\ tcall[p].pc = "done" /\ tcall[q].pc = "done"
    /\ tcall[p].call # tcall[q].call

\* p and q both read before either wrote, and q wrote last
ReadBeforeWrites(p, q) ==
    /\ BothDone(p, q)
    /\ tcall[p].readAt < tcall[p].wroteAt /\ tcall[q].readAt < tcall[p].wroteAt
    /\ tcall[p].wroteAt < tcall[q].wroteAt

\* p wrote before q read
OneAfterTheOther(p, q) == BothDone(p, q) /\ tcall[p].wroteAt < tcall[q].readAt

\* C22: of two invocations that assign different entries, when both read before
\* either writes, the ledger that is left holds the entry of the last writer and
\* not the entry of the earlier writer: it is the ledger the last writer alone
\* would have left; when one writes before the other reads, both entries are in
\* the ledger.
C22_LostUpdate ==
    \A p, q \in Invocations :
        /\ ReadBeforeWrites(p, q) =>
              /\ EntryOf(ledger, tcall[q].call[1]) # None
              /\ EntryOf(ledger, tcall[p].call[1]) = None
              /\ ledger = writeMetadata(applyCall(tcall[q].call[1], createEmptyMetadata,
                                                  tcall[q].wroteAt))
        /\ OneAfterTheOther(p, q) =>
              /\ EntryOf(ledger, tcall[q].call[1]) # None
              /\ EntryOf(ledger, tcall[p].call[1]) # None

\* both invocations read the empty ledger; the first wrote the entry of skill X,
\* the second then wrote the dependency entry of agent Z over it
C22_Witness ==
    /\ ReadBeforeWrites(1, 2)
    /\ tcall[1].call[1] = [op |-> "trackInstall", category |-> "skills", name |-> "X"]
    /\ tcall[2].call[1] = [op |-> "trackDependency", category |-> "agents", name |-> "Z"]
    /\ CompEntry(ledger, "skills", "X") = None
    /\ DepEntry(ledger, "agents", "Z") # None

----------------------------------------------------------------------------
(* getHookStatus as a function of the hook, the environment, the settings
   document and the ledger *)

EnvNames == {"V", "W"}

\* the settings documents hook H is looked up in: no file, no hooks key, a
\* handler of the user, handlers of hook G, a handler of H after the user's, a
\* handler of H under a second event
StatusSettings ==
    {None} \cup
    {Some([mcpServers |-> None, hooks |-> h, other |-> "theme"]) :
        h \in {None,
               Some(<<[name |-> "A", list |-> <<UserHandler>>]>>),
               Some(<<[name |-> "A", list |-> <<Marked("a", "G")>>]>>),
               Some(<<[name |-> "A", list |-> <<UserHandler, Marked("a", "H")>>]>>),
               Some(<<[name |-> "A", list |-> <<Marked("a", "G")>>],
                      [name |-> "B", list |-> <<Marked("a", "H")>>]>>)}}

\* the ledgers: no file, an unparsable file, no entry for H, an entry of G, an
\* entry of H with the hash of either config
StatusLedgers ==
    {None, Some(Unparsable("{")), writeMetadata(createEmptyMetadata)}
        \cup {trackInstall(None, "hooks", h, computeHash(config), SourcePath("hooks", h), 1) :
                h \in HookNames, config \in SyncHookConfigs}

InitHookStatus ==
    /\ \E config \in SyncHookConfigs, requires \in SUBSET EnvNames :
          source = [hooks |-> [n \in {"H"} |-> [config |-> config, requires |-> requires]]]
    /\ \E env \in SUBSET EnvNames : rin = [env |-> env]
    /\ \E file \in StatusSettings : target = [settings |-> file]
    /\ ledger \in StatusLedgers
    /\ rout = None
    /\ clock = 0 /\ last = 0 /\ tcall = 0 /\ edits = 0

GetHookStatus ==
    /\ rout = None
    /\ rout' = Some(getHookStatus(source, target, ledger, rin.env, "H"))
    /\ UNCHANGED <<source, target, ledger, clock, last, rin, tcall, edits>>

SpecHookStatus == InitHookStatus /\ [][GetHookStatus]_vars

\* an environment variable hook H requires is absent
MissingVars == source.hooks["H"].requires \ rin.env

\* a handler of the settings document bears the marker of hook H
MarkerPresent ==
    \E e \in 1..Len(getHooks(target.settings)) :
        \E i \in 1..Len(getHooks(target.settings)[e].list) :
            getHooks(target.settings)[e].list[i].hands = "H"

\* the ledger has an entry for hook H with the hash of its declared config
LedgerHashCurrent ==
    /\ CompEntry(ledger, "hooks", "H") # None
    /\ CompEntry(ledger, "hooks", "H")[1].hash = computeHash(source.hooks["H"].config)

\* C23: when a required environment variable is absent getHookStatus returns
\* missing-env, whatever the settings document and the ledger hold; it returns
\* available, installed or outdated only when every required variable is present.
C23_MissingEnvFirst ==
    rout # None =>
        /\ MissingVars # {} => rout[1] = "missing-env"
        /\ rout[1] \in {"available", "installed", "outdated"} => MissingVars = {}
        /\ MissingVars = {} => rout[1] \in {"available", "installed", "outdated"}

\* the status of a hook whose marker is in the document and whose ledger hash is
\* current was asked for while one of its two variables was absent
C23_Witness ==
    /\ rout # None /\ rout[1] = "missing-env"
    /\ source.hooks["H"].requires = {"V", "W"} /\ rin.env = {"V"}
    /\ MarkerPresent /\ LedgerHashCurrent

\* C26: with every required variable present, getHookStatus returns available
\* iff no handler bears the hook's marker, installed iff a handler bears it and
\* the ledger hash of the hook is the hash of its declared config, and outdated in
\* every other case.
C26_HookStatus ==
    (rout # None /\ MissingVars = {}) =>
        /\ rout[1] = "available" <=> ~MarkerPresent
        /\ rout[1] = "installed" <=> (MarkerPresent /\ LedgerHashCurrent)
        /\ rout[1] = "outdated" <=> (MarkerPresent /\ ~LedgerHashCurrent)

\* the status of a hook whose marker is in the document under a second event and
\* which the ledger does not track was asked for, and is outdated
C26_Witness ==
    /\ rout # None /\ rout[1] = "outdated"
    /\ MissingVars = {} /\ source.hooks["H"].requires = {"V"}
    /\ MarkerPresent /\ HandlersOf(target.settings, "A") = <<Marked("a", "G")>>
    /\ ledger # None /\ CompEntry(ledger, "hooks", "H") = None
    /\ CompEntry(ledger, "hooks", "G") # None

----------------------------------------------------------------------------
(* Runs of the CLI over a source tree of hooks that name environment variables *)

\* a fresh target project; the source tree has hook G, which names the
\* environment variable W, and hook H, which names V
InitHooks ==
    /\ source = [skills |-> <<>>,
                 agents |-> <<>>,
                 hooks  |-> [n \in HookNames |->
                                [config |-> <<Event("A", <<"a">>)>>,
                                 requires |-> IF n = "G" THEN {"W"} ELSE {"V"}]],
                 mcp    |-> <<>>]
    /\ target = [skills   |-> [n \in SkillNames |-> None],
                 agents   |-> [n \in AgentNames |-> None],
                 backups  |-> [n \in AgentNames |-> None],
                 skillBackups |-> [n \in SkillNames |-> None],
                 config   |-> None,
                 settings |-> None]
    /\ ledger = None
    /\ clock = 0
    /\ last = NoRun
    /\ rin = 0 /\ rout = 0 /\ tcall = 0 /\ edits = 0

NextHooks == Run \/ EditHookSource

SpecHooks == InitHooks /\ [][NextHooks]_vars

EventTypes == {"A", "B"}

\* the handlers of an event that bear the marker of the hook
MarkedIn(file, hookName, eventType) ==
    SelectSeq(HandlersOf(file, eventType), LAMBDA h : h.hands = hookName)

\* C24 (one run): a selected hook that names a missing environment variable is,
\* when the user confirms for it, merged into the settings document and tracked
\* with the hash of its config; when the user declines for it, it has no entry
\* after the run, no handler of it is added, and its handlers are gone if it was
\* tracked before.
C24_ConfirmedOrDropped ==
    RunStep =>
        \A h \in Range(last'.selected.hooks) :
            ~validateComponentEnvVars(source.hooks[h], last'.env) =>
                IF h \in last'.anyway
                THEN /\ hasHook(target'.settings, h)
                     /\ CompEntry(ledger', "hooks", h) # None
                     /\ CompEntry(ledger', "hooks", h)[1].hash
                          = computeHash(source.hooks[h].config)
                ELSE /\ CompEntry(ledger', "hooks", h) = None
                     /\ IF CompEntry(ledger, "hooks", h) # None
                        THEN ~hasHook(target'.settings, h)
                        ELSE \A e \in EventTypes :
                                MarkedIn(target'.settings, h, e) = MarkedIn(target.settings, h, e)

\* C24: in every run, a selected hook with a missing environment variable is
\* installed only on the user's confirmation for that hook and is otherwise
\* treated as not selected.
C24_SoftBlock == [][C24_ConfirmedOrDropped]_vars

\* G and H were selected with neither variable set; the user confirmed for G and
\* declined for H, which an earlier run had installed: G is in the document and
\* tracked, H is in neither
C24_Witness ==
    /\ last.ran /\ last.selected.hooks = <<"G", "H">>
    /\ last.env = {} /\ last.anyway = {"G"}
    /\ clock = 2
    /\ hasHook(target.settings, "G") /\ CompEntry(ledger, "hooks", "G") # None
    /\ CompEntry(ledger, "hooks", "G")[1].installedAt = 2
    /\ ObjHas(last.trackedHooks, "H") /\ ~ObjHas(last.trackedHooks, "G")
    /\ ~hasHook(target.settings, "H") /\ CompEntry(ledger, "hooks", "H") = None

----------------------------------------------------------------------------
(* getFileBasedStatus as a function of the source, the target and the ledger *)

FileComps == {<<"skills", "X">>, <<"agents", "Z">>}

\* the ledgers: no file, or an entry for the component in components or in
\* resolvedDeps, with any hash
FileLedgers ==
    {None, writeMetadata(createEmptyMetadata)}
        \cup {trackInstall(None, c[1], c[2], h, SourcePath(c[1], c[2]), 1) :
                c \in FileComps, h \in Hashes}
        \cup {trackDependency(None, c[1], c[2], h, SourcePath(c[1], c[2]), <<"Y">>, 1) :
                c \in FileComps, h \in Hashes}

InitFileStatus ==
    /\ \E files \in SkillFileSets, manifest \in {None, Manifest(<<"E">>, "Z", <<>>)},
          content \in AgentContents :
          source = [skills |-> [n \in {"X"} |-> [files |-> files, manifest |-> manifest]],
                    agents |-> [n \in {"Z"} |-> content]]
    /\ \E dir \in {None} \cup {Some(files) : files \in SkillFileSets},
          file \in {None} \cup {Some(content) : content \in AgentContents} :
          target = [skills |-> [n \in {"X"} |-> dir], agents |-> [n \in {"Z"} |-> file]]
    /\ ledger \in FileLedgers
    /\ \E c \in FileComps : rin = [category |-> c[1], name |-> c[2]]
    /\ rout = None
    /\ clock = 0 /\ last = 0 /\ tcall = 0 /\ edits = 0

GetFileBasedStatus ==
    /\ rout = None
    /\ rout' = Some(getFileBasedStatusShown(source, target, ledger, rin.category, rin.name))
    /\ UNCHANGED <<source, target, ledger, clock, last, rin, tcall, edits>>

SpecFileStatus == InitFileStatus /\ [][GetFileBasedStatus]_vars

TargetExists == target[rin.category][rin.name] # None

\* the content hash of the source and of the target of the component
HashesEqual ==
    IF rin.category = "skills"
    THEN computeDirectoryHash(SkillDir(source.skills[rin.name]))
           = computeDirectoryHash(target.skills[rin.name][1])
    ELSE computeFileHash(source.agents[rin.name]) = computeFileHash(target.agents[rin.name][1])

\* C25: getFileBasedStatus returns available iff the target is absent, installed
\* iff the target exists and its hash is the source's, outdated iff the target
\* exists and the hashes differ; every ledger gives the same status.
C25_FileBasedStatus ==
    rout # None =>
        /\ rout[1].status = "available" <=> ~TargetExists
        /\ rout[1].status = "installed" <=> (TargetExists /\ HashesEqual)
        /\ rout[1].status = "outdated" <=> (TargetExists /\ ~HashesEqual)
        /\ \A file \in FileLedgers :
              getFileBasedStatusShown(source, target, file, rin.category, rin.name).status
                 = rout[1].status
        /\ getFileBasedStatus(source, target, rin.category, rin.name) = rout[1].status

\* the status of a skill whose target directory differs from the source and
\* which the ledger does not track was asked for: outdated, described as different
C25_Witness ==
    /\ rout # None /\ rin.category = "skills"
    /\ TargetExists /\ ~HashesEqual
    /\ ledger # None /\ getTrackedInfo(ledger, "skills", "X") = None
    /\ getTrackedInfo(ledger, "agents", "Z") # None
    /\ rout[1] = [status |-> "outdated", description |-> "(different)"]

----------------------------------------------------------------------------
(* computeDirectoryHash as a function of the entries readdir enumerates *)

DirPaths == {"cafe-nfc.md", "cafe-nfd.md", "SKILL.md"}
Contents == {"v1", "v2"}

\* every order in which readdir may enumerate a set of entries
Enumerations(E) == {s \in DistinctSeqs(E, Cardinality(E)) : Len(s) = Cardinality(E)}

\* the entries of a directory with these files and, when given, manifest.json
EntriesOf(files, manifest) ==
    {[relPath |-> q, content |-> files[q]] : q \in DOMAIN files}
        \cup {[relPath |-> "manifest.json", content |-> manifest[i]] : i \in 1..Len(manifest)}

\* two directories with the same files other than manifest.json, each with its
\* own manifest.json or none, each enumerated in some order
InitDirHash ==
    /\ \E S \in SUBSET DirPaths : \E files \in [S -> Contents] :
         \E m1, m2 \in {None, Some("m1"), Some("m2")} :
           \E e1 \in Enumerations(EntriesOf(files, m1)), e2 \in Enumerations(EntriesOf(files, m2)) :
              rin = [first |-> e1, second |-> e2]
    /\ rout = None
    /\ source = 0 /\ target = 0 /\ ledger = 0 /\ clock = 0 /\ last = 0 /\ tcall = 0 /\ edits = 0

ComputeDirectoryHash ==
    /\ rout = None
    /\ rout' = Some([first |-> computeDirectoryHashOf(rin.first),
                     second |-> computeDirectoryHashOf(rin.second)])
    /\ UNCHANGED <<source, target, ledger, clock, last, rin, tcall, edits>>

SpecDirHash == InitDirHash /\ [][ComputeDirectoryHash]_vars

\* the (relative path, content) pairs of the files other than manifest.json
PairsOf(entries) ==
    {<<entries[i].relPath, entries[i].content>> :
        i \in {j \in 1..Len(entries) : entries[j].relPath # "manifest.json"}}

\* C27: two directories with the same (relative path, content) pairs other than
\* manifest.json have the same computeDirectoryHash, in whatever order their
\* entries are enumerated and whatever manifest.json either holds.
C27_HashOfPairs ==
    (rout # None /\ PairsOf(rin.first) = PairsOf(rin.second))
        => rout[1].first = rout[1].second

----------------------------------------------------------------------------
(* Runs of the CLI during which parts of the source tree have gone missing
   between the scan and the install *)

\* the skill directories and agent files of the source tree
SourcePaths(src) ==
    {c \in {"skills", "agents"} \X (SkillNames \cup AgentNames) : pathExists(src, c[1], c[2])}

\* the source tree once the paths in lost are gone
Without(src, lost) ==
    [src EXCEPT !.skills = [n \in {m \in DOMAIN src.skills : <<"skills", m>> \notin lost}
                                |-> src.skills[n]],
                !.agents = [n \in {m \in DOMAIN src.agents : <<"agents", m>> \notin lost}
                                |-> src.agents[n]]]

\* Hands.run() while a skill directory or an agent file of the source tree is
\* removed after the scan and before syncComponents installs
RunLosing ==
    /\ clock < MaxRuns
    /\ clock' = clock + 1
    /\ \E c \in SourcePaths(source) : RunFrom(Without(source, {c}))
    /\ UNCHANGED <<source, rin, rout, tcall, edits>>

\* the source tree of Init (skills X and Y, agent Z and endpoint E; X declares E
\* and Z, Y declares E and X) and a target project that is fresh or has an agent
\* file Z.md of the user's own
InitBatch ==
    /\ source = [skills |-> [n \in {"X", "Y"} |->
                                [files |-> [p \in {"SKILL.md"} |-> "v1"],
                                 manifest |-> IF n = "X" THEN Manifest(<<"E">>, "Z", <<>>)
                                              ELSE Manifest(<<"E">>, "", <<"X">>)]],
                 agents |-> [n \in AgentNames |-> "v1"],
                 hooks  |-> <<>>,
                 mcp    |-> [n \in McpNames |-> "url1"]]
    /\ \E own \in {None, Some("v0")} :
          target = [skills   |-> [n \in SkillNames |-> None],
                    agents   |-> [n \in AgentNames |-> own],
                    backups  |-> [n \in AgentNames |-> None],
                    skillBackups |-> [n \in SkillNames |-> None],
                    config   |-> None,
                    settings |-> None]
    /\ ledger = None
    /\ clock = 0
    /\ last = NoRun
    /\ rin = 0 /\ rout = 0 /\ tcall = 0 /\ edits = 0

SpecBatch == InitBatch /\ [][RunLosing]_vars

\* the answers given in the run that is recorded in l
AnswersOf(l) == [proceed |-> l.proceed, env |-> l.env, anyway |-> l.anyway, yes |-> {}]

\* the components whose install the run recorded in l attempts: the resolved
\* agents when the prompt is accepted, the resolved skills, and the selected
\* components that are available or outdated
Attempted(l) ==
    LET resolution == resolveDependencies(RunInput(source, l.selected))
        status == StatusOf(source, target)
    IN  {<<"agents", resolution.agents[i].name>> :
            i \in {j \in 1..Len(resolution.agents) : l.proceed}}
        \cup {<<"skills", resolution.skills[i].name>> : i \in 1..Len(resolution.skills)}
        \cup {c \in {"skills", "agents"} \X (SkillNames \cup AgentNames) :
                /\ InSeq(l.selected[c[1]], c[2])
                /\ status[c[1]][c[2]] \in {"available", "outdated"}}

\* the components the run recorded in l removes: the unselected ones that are
\* installed or outdated, and the orphans whose prompt is accepted
Removed(l) ==
    LET status == StatusOf(source, target)
    IN  {c \in {"skills", "agents"} \X (SkillNames \cup AgentNames) :
            /\ pathExists(source, c[1], c[2])
            /\ ~InSeq(l.selected[c[1]], c[2])
            /\ status[c[1]][c[2]] \in {"installed", "outdated"}}
        \cup l.yes

\* a list of resolved dependencies without those whose source is missing
Present(deps, lost, category) ==
    SelectSeq(deps, LAMBDA d : <<category, d.name>> \notin lost)

\* the same run, with the same selection and answers, in which the three loops
\* that install do not meet the components in lost: these are left out of
\* resolution.agents and resolution.skills, and the loop over selected[category]
\* passes them by
RunWithout(l) ==
    LET resolution == resolveDependencies(RunInput(source, l.selected))
        status == StatusOf(source, target)
    IN  finishSync(
            syncResolved(World, source, source,
                [c \in {"skills", "agents"} |->
                    [n \in DOMAIN status[c] |->
                        IF <<c, n>> \in l.lost /\ InSeq(l.selected[c], n)
                        THEN "passed by" ELSE status[c][n]]],
                l.selected, AnswersOf(l), clock + 1,
                [resolution EXCEPT !.agents = Present(@, l.lost, "agents"),
                                   !.skills = Present(@, l.lost, "skills")]),
            l.selected, l.yes).w

\* what a run leaves of component c: its target, its backup and its two ledger
\* entries
Left(tgt, file, c) ==
    [target |-> tgt[c[1]][c[2]],
     backup |-> IF c[1] = "agents" THEN tgt.backups[c[2]] ELSE tgt.skillBackups[c[2]],
     component |-> CompEntry(file, c[1], c[2]),
     dependency |-> DepEntry(file, c[1], c[2])]

\* a component whose source is missing, and whose install is attempted, is left
\* as it was
C28_FailingUntouched ==
    clock' = clock + 1 =>
        \A c \in (last'.lost \cap Attempted(last')) \ Removed(last') :
            Left(target', ledger', c) = Left(target, ledger, c)

\* the run leaves the target project and the ledger as the same run leaves
\* them when the components whose source is missing are in none of the batches
C28_OthersAsWithout ==
    clock' = clock + 1 =>
        /\ target' = RunWithout(last').target
        /\ ledger' = RunWithout(last').ledger

\* C28: a component whose source is missing when it is installed keeps its
\* target and its ledger entries as they were, and every other component is
\* installed and tracked as it is when the failing one is left out
C28_MissingSource == [][C28_FailingUntouched /\ C28_OthersAsWithout]_vars

\* a run that selected the skills X and Y and the agent, in a project with an
\* agent file of the user's own, after the source of X was lost: X is neither
\* installed nor tracked, Y and the agent are installed and tracked
C28_Witness ==
    /\ last.ran
    /\ last.lost = {<<"skills", "X">>}
    /\ last.selected = [skills |-> <<"X", "Y">>, agents |-> <<"Z">>, hooks |-> <<>>]
    /\ target.skills["X"] = None
    /\ CompEntry(ledger, "skills", "X") = None
    /\ DepEntry(ledger, "skills", "X") = None
    /\ target.skills["Y"] # None
    /\ CompEntry(ledger, "skills", "Y") # None
    /\ CompEntry(ledger, "skills", "Y")[1].installedAt = clock
    /\ target.agents["Z"] = Some(source.agents["Z"])
    /\ target.backups["Z"] = Some("v0")
    /\ CompEntry(ledger, "agents", "Z") # None

----------------------------------------------------------------------------
(* Runs of the CLI over source trees whose manifests name endpoints, agents
   and skills that are not there *)

\* the manifests of skill n, o being the other skill of the source tree: Q is
\* the name of no endpoint and of no agent, D the name of no skill
DanglingManifests(o) ==
    {None,
     Manifest(<<"E">>, "Z", <<>>),
     Manifest(<<"Q", "E">>, "Z", <<>>),
     Manifest(<<"E">>, "Q", <<o>>),
     Manifest(<<>>, "Z", <<"D", o>>),
     Manifest(<<"E", "Q">>, "Q", <<o, "D">>)}

\* a fresh target project; the source tree has skills X and Y, agent Z and
\* endpoint E, and the manifests of X and Y are drawn
InitDangling ==
    /\ \E mx \in DanglingManifests("Y"), my \in DanglingManifests("X") :
          source = [skills |-> [n \in {"X", "Y"} |->
                                   [files |-> [p \in {"SKILL.md"} |-> "v1"],
                                    manifest |-> IF n = "X" THEN mx ELSE my]],
                    agents |-> [n \in AgentNames |-> "v1"],
                    hooks  |-> <<>>,
                    mcp    |-> [n \in McpNames |-> "url1"]]
    /\ target = [skills   |-> [n \in SkillNames |-> None],
                 agents   |-> [n \in AgentNames |-> None],
                 backups  |-> [n \in AgentNames |-> None],
                 skillBackups |-> [n \in SkillNames |-> None],
                 config   |-> None,
                 settings |-> None]
    /\ ledger = None
    /\ clock = 0
    /\ last = NoRun
    /\ rin = 0 /\ rout = 0 /\ tcall = 0 /\ edits = 0

SpecDangling == InitDangling /\ [][Run]_vars

\* the references of the manifest of skill s that name nothing: an endpoint
\* that is not in the pool, an agent or a skill that is not in the universe
DanglingOf(in, s) ==
    IF in.allSkills[s].manifest = None THEN {}
    ELSE LET m == in.allSkills[s].manifest[1]
         IN  {[skill |-> s, kind |-> "mcp", dep |-> d] : d \in Range(m.mcpServers) \ in.pool}
             \cup {[skill |-> s, kind |-> "agent", dep |-> d] :
                        d \in {m.agent} \ (in.allAgents \cup {""})}
             \cup {[skill |-> s, kind |-> "skill", dep |-> d] :
                        d \in Range(m.skills) \ DOMAIN in.allSkills}

\* the argument of resolveDependencies with the dangling references taken out of
\* the manifests
WithoutDangling(in) ==
    [in EXCEPT !.allSkills =
        [s \in DOMAIN in.allSkills |->
            IF in.allSkills[s].manifest = None THEN in.allSkills[s]
            ELSE [in.allSkills[s] EXCEPT !.manifest =
                    LET m == in.allSkills[s].manifest[1]
                    IN  Some([mcpServers |-> SelectSeq(m.mcpServers, LAMBDA d : d \in in.pool),
                              agent |-> IF m.agent \in in.allAgents THEN m.agent ELSE "",
                              skills |-> SelectSeq(m.skills,
                                            LAMBDA d : d \in DOMAIN in.allSkills)])]]]

\* the source tree with the dangling references taken out of the manifests
SourceWithoutDangling(src) ==
    [src EXCEPT !.skills = WithoutDangling(RunInput(src, [skills |-> <<>>, agents |-> <<>>, hooks |-> <<>>])).allSkills]

\* resolveDependencies warns once for every dangling reference of a skill it
\* resolves, reports no error for it, and resolves everything else as it does
\* when the reference is not in the manifest
C29_ResolvedAsAbsent(in) ==
    LET r == resolveDependencies(in)
        r0 == resolveDependencies(WithoutDangling(in))
    IN  /\ Range(r.warnings) = UNION {DanglingOf(in, s) : s \in Reachable(in)}
        /\ NoDup(r.warnings)
        /\ r0.warnings = <<>>
        /\ r.errors = r0.errors
        /\ r.mcpServers = r0.mcpServers
        /\ r.agents = r0.agents
        /\ r.skills = r0.skills
        /\ \A i \in 1..Len(r.mcpServers) : r.mcpServers[i].name \in in.pool
        /\ \A i \in 1..Len(r.agents) : r.agents[i].name \in in.allAgents
        /\ \A i \in 1..Len(r.skills) : r.skills[i].name \in DOMAIN in.allSkills

\* a run whose resolution has warnings and no errors is not aborted, and leaves
\* the target project and the ledger as the same run does on the source tree
\* whose manifests have no dangling reference
C29_NotBlocked(l) ==
    LET r == resolveDependencies(RunInput(source, l.selected))
        clean == SourceWithoutDangling(source)
        u == finishSync(syncUntilOrphans(World, clean, clean, StatusOf(clean, target),
                                         l.selected, AnswersOf(l), clock + 1),
                        l.selected, l.yes)
    IN  (r.warnings # <<>> /\ r.errors = <<>>) =>
            /\ ~l.aborted
            /\ target' = u.w.target
            /\ ledger' = u.w.ledger

C29_OfRun ==
    clock' = clock + 1 =>
        /\ C29_ResolvedAsAbsent(RunInput(source, last'.selected))
        /\ C29_NotBlocked(last')

\* C29: a manifest reference to an endpoint, agent or skill that is not in the
\* pool or universe gives a warning and no error, is in none of the outputs,
\* leaves every other dependency resolved as if it were absent, and does not
\* block the install.
C29_DanglingWarned == [][C29_OfRun]_vars

\* a run that selected X alone, whose manifest names the missing endpoint Q
\* before endpoint E: the resolution warned, and the run installed X and its
\* dependencies E and Z
C29_Witness ==
    /\ last.ran /\ ~last.aborted /\ last.proceed
    /\ last.selected.skills = <<"X">>
    /\ source.skills["X"].manifest = Manifest(<<"Q", "E">>, "Z", <<>>)
    /\ resolveDependencies(RunInput(source, last.selected)).warnings
            = <<[skill |-> "X", kind |-> "mcp", dep |-> "Q"]>>
    /\ target.skills["X"] # None
    /\ CompEntry(ledger, "skills", "X") # None
    /\ DepEntry(ledger, "mcpServers", "E") # None
    /\ DepEntry(ledger, "agents", "Z") # None

----------------------------------------------------------------------------
(* addMcpServer and removeMcpServer, in any order, on one config.json *)

MaxRegistryCalls == 3    \* registry calls in one behaviour

ServerNames == {"E", "F"}
ServerConfigs == {"url1", "url2"}

\* the config.json documents a project has before Hands touches it: no file,
\* a document without mcpServers, and documents whose registry is empty or has
\* servers of the user's
UserConfigs ==
    {None} \cup
    {Some([mcpServers |-> m, hooks |-> None, other |-> o]) :
        m \in {None, Some(<<>>),
               Some(<<[name |-> "F", config |-> "url1"]>>),
               Some(<<[name |-> "E", config |-> "url2"], [name |-> "F", config |-> "url1"]>>)},
        o \in {"none", "theme"}}

InitRegistry ==
    /\ \E file \in UserConfigs : target = [config |-> file]
    /\ clock = 0
    /\ last = <<>>
    /\ rin = target
    /\ source = 0 /\ ledger = 0 /\ tcall = 0 /\ rout = 0 /\ edits = 0

AddMcpServer ==
    \E name \in ServerNames, cfg \in ServerConfigs :
        /\ clock < MaxRegistryCalls
        /\ clock' = clock + 1
        /\ target' = [target EXCEPT !.config = addMcpServer(@, name, cfg)]
        /\ last' = Append(last, [op |-> "addMcpServer", name |-> name, config |-> cfg])
        /\ UNCHANGED <<source, ledger, rin, rout, tcall, edits>>

RemoveMcpServer ==
    \E name \in ServerNames :
        /\ clock < MaxRegistryCalls
        /\ clock' = clock + 1
        /\ target' = [target EXCEPT !.config = removeMcpServer(@, name)]
        /\ last' = Append(last, [op |-> "removeMcpServer", name |-> name, config |-> ""])
        /\ UNCHANGED <<source, ledger, rin, rout, tcall, edits>>

NextRegistry == AddMcpServer \/ RemoveMcpServer

SpecRegistry == InitRegistry /\ [][NextRegistry]_vars

\* the value at a key of the registry of a config.json, None when the key, the
\* registry or the file is absent
ServerAt(file, name) ==
    LET config == readJsonFile(file)
    IN  IF config.mcpServers # None /\ ObjHas(config.mcpServers[1], name)
        THEN Some(ObjGet(config.mcpServers[1], name).config) ELSE None

\* the keys of the enclosing document other than the registry
OtherKeys(file) == [hooks |-> readJsonFile(file).hooks, other |-> readJsonFile(file).other]

\* the call that was made last
LastCall == last'[Len(last')]

\* one call: the key named has the value given, or is absent, and every other key
\* of the registry and of the document has the value it had
C30_OneCall ==
    clock' = clock + 1 =>
        /\ ServerAt(target'.config, LastCall.name)
                = IF LastCall.op = "addMcpServer" THEN Some(LastCall.config) ELSE None
        /\ \A k \in ServerNames \ {LastCall.name} :
                ServerAt(target'.config, k) = ServerAt(target.config, k)
        /\ OtherKeys(target'.config) = OtherKeys(target.config)

\* the calls made so far that name key k
CallsOn(k) == SelectSeq(last, LAMBDA c : c.name = k)

\* after any calls: a key has the value of the last add that names it when no
\* remove of it came later, is absent when the last call that names it is a
\* remove, and has the value it had at first when no call names it
C30_LastWins ==
    \A k \in ServerNames :
        ServerAt(target.config, k) =
            IF CallsOn(k) = <<>> THEN ServerAt(rin.config, k)
            ELSE LET c == CallsOn(k)[Len(CallsOn(k))]
                 IN  IF c.op = "addMcpServer" THEN Some(c.config) ELSE None

\* C30: addMcpServer makes the value at the key equal to the config given,
\* removeMcpServer makes the key absent, every other key of the registry and of
\* the document keeps its value, and the last of several adds to one key wins.
C30_Registry == [](C30_LastWins) /\ [][C30_OneCall]_vars

\* two adds to key E with different values, made on a document that had servers
\* E and F and another key: E has the value of the second add, F and the other
\* key have the values they had
C30_Witness ==
    /\ Len(last) = 2
    /\ last[1] = [op |-> "addMcpServer", name |-> "E", config |-> "url1"]
    /\ last[2] = [op |-> "addMcpServer", name |-> "E", config |-> "url2"]
    /\ ServerAt(rin.config, "F") = Some("url1")
    /\ OtherKeys(rin.config).other = "theme"
    /\ ServerAt(target.config, "E") = Some("url2")
    /\ ServerAt(target.config, "F") = Some("url1")
    /\ OtherKeys(target.config).other = "theme"

----------------------------------------------------------------------------
(* The scan of a source tree whose JSON files may be malformed *)

\* what a manifest.json, a hook file or an endpoint file may hold
ManifestFiles == {Unparsable("{"), Stored([mcpServers |-> <<"E">>, agent |-> "Z", skills |-> <<>>])}
ConfigFiles == {Unparsable("{"), Stored("cfg")}

\* the entries readdir gives for one name of rules/.claude/skills: a plain file,
\* a directory without SKILL.md, a directory with SKILL.md and any manifest.json
SkillEntries(n) ==
    {[name |-> n, isDirectory |-> FALSE, skillFile |-> FALSE, manifestFile |-> None]}
    \cup {[name |-> n, isDirectory |-> TRUE, skillFile |-> sf, manifestFile |-> m] :
            sf \in BOOLEAN, m \in {None} \cup {Some(f) : f \in ManifestFiles}}

\* the entries for one name of rules/.claude/agents
AgentEntries(n) ==
    {[name |-> n, isFile |-> f, ext |-> e] : f \in BOOLEAN, e \in {".md", ".txt"}}

\* the entries for one name of rules/.claude/hooks or rules/.claude/mcp-servers
JsonEntries(n) ==
    {[name |-> n, isFile |-> TRUE, ext |-> ".json", file |-> f] : f \in ConfigFiles}
    \cup {[name |-> n, isFile |-> TRUE, ext |-> ".md", file |-> Stored("cfg")]}

\* the listings of a directory that has, in this order, at most one entry of S
\* and at most one of T
Listings(S, T) ==
    {a \o b : a \in {<<>>} \cup {<<e>> : e \in S}, b \in {<<>>} \cup {<<e>> : e \in T}}

InitScan ==
    /\ \E skills \in Listings(SkillEntries("X"), SkillEntries("Y")),
          agents \in Listings(AgentEntries("Z"), {}),
          hooks \in Listings(JsonEntries("G"), JsonEntries("H")),
          mcpServers \in Listings(JsonEntries("E"), JsonEntries("F")) :
          rin = [skills |-> skills, agents |-> agents, hooks |-> hooks,
                 mcpServers |-> mcpServers]
    /\ rout = None
    /\ source = 0 /\ target = 0 /\ ledger = 0 /\ clock = 0 /\ last = 0 /\ tcall = 0 /\ edits = 0

Scan ==
    /\ rout = None
    /\ rout' = Some(scanRules(rin))
    /\ UNCHANGED <<source, target, ledger, clock, last, rin, tcall, edits>>

SpecScan == InitScan /\ [][Scan]_vars

\* the entries of a listing that are well formed: a skill directory with
\* SKILL.md, an agent file .md, a .json file whose text is JSON
WellFormedSkills(entries) == SelectSeq(entries, LAMBDA e : e.isDirectory /\ e.skillFile)
WellFormedAgents(entries) == SelectSeq(entries, LAMBDA e : e.isFile /\ e.ext = ".md")
WellFormedJson(entries) ==
    SelectSeq(entries, LAMBDA e : e.isFile /\ e.ext = ".json" /\ e.file.json # None)

NamesOf(seq) == [i \in 1..Len(seq) |-> seq[i].name]

\* the argument of resolveDependencies when the skill at position i of what
\* was found is selected alone
SelectedAlone(found, i) ==
    [selectedSkills |-> <<found.skills[i].name>>,
     allSkills |-> [n \in Range(NamesOf(found.skills)) |->
                        [manifest |-> (CHOOSE e \in Range(found.skills) : e.name = n).manifest]],
     selectedAgents |-> {}, allAgents |-> Range(NamesOf(found.agents)),
     pool |-> Range(NamesOf(found.mcpServers))]

\* the manifest.json of the skill directory named n is there and is not JSON
MalformedManifest(disk, n) ==
    \E i \in 1..Len(disk.skills) :
        /\ disk.skills[i].name = n /\ disk.skills[i].isDirectory /\ disk.skills[i].skillFile
        /\ disk.skills[i].manifestFile # None
        /\ disk.skills[i].manifestFile[1].json = None

\* C31: the scan result has every well-formed skill, agent, hook and endpoint
\* of the source tree, in order, and nothing else; a skill whose manifest is
\* malformed is among them and has no dependencies; a hook or endpoint file
\* that is malformed is the only entry left out because of it.
C31_ScanTolerant ==
    rout # None =>
        /\ NamesOf(rout[1].skills) = NamesOf(WellFormedSkills(rin.skills))
        /\ NamesOf(rout[1].agents) = NamesOf(WellFormedAgents(rin.agents))
        /\ NamesOf(rout[1].hooks) = NamesOf(WellFormedJson(rin.hooks))
        /\ NamesOf(rout[1].mcpServers) = NamesOf(WellFormedJson(rin.mcpServers))
        /\ \A i \in 1..Len(rout[1].hooks) :
                Some(rout[1].hooks[i].config) = WellFormedJson(rin.hooks)[i].file.json
        /\ \A i \in 1..Len(rout[1].mcpServers) :
                Some(rout[1].mcpServers[i].config) = WellFormedJson(rin.mcpServers)[i].file.json
        /\ \A i \in 1..Len(rout[1].skills) :
                LET e == WellFormedSkills(rin.skills)[i]
                IN  /\ (e.manifestFile # None /\ e.manifestFile[1].json # None)
                            => rout[1].skills[i].manifest = e.manifestFile[1].json
                    /\ MalformedManifest(rin, e.name) =>
                        /\ rout[1].skills[i].manifest = None
                        /\ LET r == resolveDependencies(SelectedAlone(rout[1], i))
                           IN  /\ r.mcpServers = <<>> /\ r.agents = <<>> /\ r.skills = <<>>
                               /\ r.warnings = <<>> /\ r.errors = <<>>

\* a scan of a tree in which the manifest of X, the file of hook G and the file
\* of endpoint E are malformed: X, Y, Z, H and F are in the result, G and E are not
C31_Witness ==
    /\ rout # None
    /\ MalformedManifest(rin, "X")
    /\ \E i \in 1..Len(rin.hooks) : rin.hooks[i].name = "G" /\ rin.hooks[i].ext = ".json"
                                      /\ rin.hooks[i].file.json = None
    /\ \E i \in 1..Len(rin.mcpServers) : rin.mcpServers[i].name = "E"
                                      /\ rin.mcpServers[i].ext = ".json"
                                      /\ rin.mcpServers[i].file.json = None
    /\ NamesOf(rout[1].skills) = <<"X", "Y">>
    /\ NamesOf(rout[1].agents) = <<"Z">>
    /\ NamesOf(rout[1].hooks) = <<"H">>
    /\ NamesOf(rout[1].mcpServers) = <<"F">>

----------------------------------------------------------------------------
(* What syncHooks reports, in a project whose ledger may be deleted *)

\* the user deletes .hands-meta.json
DeleteLedger ==
    /\ edits < MaxEdits /\ edits' = edits + 1
    /\ ledger # None
    /\ ledger' = None
    /\ UNCHANGED <<source, target, clock, last, rin, rout, tcall>>

NextReport == SyncHooks \/ DeleteLedger

SpecReport == InitMerger /\ [][NextReport]_vars

\* the hash the ledger given to syncHooks tracks for a hook, None when it tracks
\* none
TrackedHash(tracked, h) == IF ObjHas(tracked, h) THEN Some(ObjGet(tracked, h).hash) ELSE None

\* C32: syncHooks reports a selected hook in added iff no handler with its
\* marker existed before, in updated iff one existed and the hash of the new
\* configuration differs from the hash the ledger tracks for the name; in
\* neither when the marker exists and the tracked hash is equal; never in both.
C32_Reported ==
    tcall.op = "syncHooks" =>
        \A h \in Range(tcall.selected) :
            /\ InSeq(tcall.result.added, h) <=> ~hasHook(tcall.before, h)
            /\ InSeq(tcall.result.updated, h) <=>
                    /\ hasHook(tcall.before, h)
                    /\ TrackedHash(tcall.tracked, h) # Some(computeHash(tcall.configs[h]))
            /\ ~(InSeq(tcall.result.added, h) /\ InSeq(tcall.result.updated, h))

\* the same, for the hooks that are tracked or have no marker: the part of the
\* statement the code meets
C32_ReportedWhenTracked ==
    tcall.op = "syncHooks" =>
        \A h \in Range(tcall.selected) :
            (ObjHas(tcall.tracked, h) \/ ~hasHook(tcall.before, h)) =>
                /\ InSeq(tcall.result.added, h) <=> ~hasHook(tcall.before, h)
                /\ InSeq(tcall.result.updated, h) <=>
                        /\ hasHook(tcall.before, h)
                        /\ TrackedHash(tcall.tracked, h) # Some(computeHash(tcall.configs[h]))
                /\ ~(InSeq(tcall.result.added, h) /\ InSeq(tcall.result.updated, h))

----------------------------------------------------------------------------
(* What a run leaves of the components that were deselected *)

----------------------------------------------------------------------------
(* What a run leaves of the dependencies of the selected skills *)

\* the agents and skills the run's resolution lists and the source tree holds
RequiredOf(src, selected, c) ==
    {n \in ResolvedNames(resolveDependencies(RunInput(src, selected)), c) :
        pathExists(src, c, n)}

\* C36: at the end of a run that is not aborted and whose dependency prompt was
\* confirmed, every agent and skill of the resolution whose source exists has
\* its target, whatever its status before the run.
C36_DependenciesPresent ==
    [][(RunStep /\ ~last'.aborted /\ last'.proceed) =>
        \A c \in {"skills", "agents"} : \A n \in RequiredOf(source, last'.selected, c) :
            target'[c][n] # None]_vars

\* the same, for the dependencies whose status before the run was neither
\* installed nor outdated and that no orphan prompt named
C36_NewDependenciesPresent ==
    [][(RunStep /\ ~last'.aborted /\ last'.proceed) =>
        \A c \in {"skills", "agents"} : \A n \in RequiredOf(source, last'.selected, c) :
            (/\ StatusOf(source, target)[c][n] \notin {"installed", "outdated"}
             /\ <<c, n>> \notin last'.yes)
            => target'[c][n] # None]_vars

----------------------------------------------------------------------------
(* What the orphan cleanup does to the selected components *)

\* C37: a skill or agent that the user selected for a run has its target at the
\* end of the run, whatever answers the orphan prompts got.
C37_SelectedKept ==
    [][(RunStep /\ ~last'.aborted) =>
        \A c \in {"skills", "agents"} : \A n \in Range(last'.selected[c]) :
            target'[c][n] # None]_vars

\* the same, for the selected components that no confirmed orphan prompt named
C37_SelectedKeptUnlessConfirmed ==
    [][(RunStep /\ ~last'.aborted) =>
        \A c \in {"skills", "agents"} : \A n \in Range(last'.selected[c]) :
            <<c, n>> \notin last'.yes => target'[c][n] # None]_vars

----------------------------------------------------------------------------
(* What a run installs when the dependency prompt is declined *)

\* in category c the step installed no dependency of the run's resolution and
\* created or changed no resolvedDeps entry
NothingResolvedInstalled(c) ==
    /\ \A n \in ResolvedNames(resolveDependencies(RunInput(source, last'.selected)), c) :
          InstalledTarget(target', c, n) \in {InstalledTarget(target, c, n), None}
    /\ \A i \in 1..Len(getTrackedDependencies(ledger', c)) :
          LET e == getTrackedDependencies(ledger', c)[i]
          IN  /\ ObjHas(getTrackedDependencies(ledger, c), e.name)
              /\ ObjGet(getTrackedDependencies(ledger, c), e.name) = e

\* C38: a run whose dependency prompt is declined installs no dependency of its
\* resolution, endpoint, agent or skill, and creates or updates no resolvedDeps
\* entry.
C38_DeclinedInstallsNothing ==
    [][(RunStep /\ ~last'.aborted /\ ~last'.proceed) =>
        \A c \in DepCategories : NothingResolvedInstalled(c)]_vars

\* the same, for the endpoints and the agents
C38_DeclinedInstallsNoEndpointOrAgent ==
    [][(RunStep /\ ~last'.aborted /\ ~last'.proceed) =>
        \A c \in {"mcpServers", "agents"} : NothingResolvedInstalled(c)]_vars

----------------------------------------------------------------------------
(* What mergeHook leaves of a config with several handlers for one event *)

\* C39: after mergeHook every handler the config declares for an event is in
\* that event's list, with the hook's marker.
C39_AllDeclaredPresent ==
    tcall.op = "mergeHook" =>
        \A e \in 1..Len(tcall.config) :
            \A j \in 1..Len(tcall.config[e].handlers) :
                InSeq(HandlersOf(target.settings, tcall.config[e].name),
                      Marked(tcall.config[e].handlers[j], tcall.name))

\* the same, for the last handler declared for each event; and the list holds
\* at most one handler with the marker unless it held more before the call
C39_LastDeclaredPresent ==
    tcall.op = "mergeHook" =>
        \A e \in 1..Len(tcall.config) :
            LET handlers == tcall.config[e].handlers
                old == HandlersOf(tcall.before, tcall.config[e].name)
                new == HandlersOf(target.settings, tcall.config[e].name)
            IN  handlers # <<>> =>
                  /\ InSeq(new, Marked(handlers[Len(handlers)], tcall.name))
                  /\ Cardinality(MarkedAt(new, tcall.name))
                        = IF MarkedAt(old, tcall.name) = {} THEN 1
                          ELSE Cardinality(MarkedAt(old, tcall.name))

----------------------------------------------------------------------------
(* Syncs that keep hook H selected while its config changes *)

\* a call of syncHooks whose selection holds H
SyncKeepingH == SyncHooks /\ InSeq(tcall'.selected, "H")

SpecKeepingH == InitMerger /\ [][SyncKeepingH]_vars

\* the events under which the document holds a handler with the hook's marker
MarkedEvents(file, hookName) ==
    {getHooks(file)[i].name : i \in {j \in 1..Len(getHooks(file)) :
                                        MarkedAt(getHooks(file)[j].list, hookName) # {}}}

DeclaredEvents(config) == {config[e].name : e \in 1..Len(config)}

\* C40: after every sync of a sequence that keeps H selected, the handlers with
\* H's marker are under events that H's config of that sync declares.
C40_NoStaleHandlers ==
    tcall.op = "syncHooks" =>
        MarkedEvents(target.settings, "H") \subseteq DeclaredEvents(tcall.configs["H"])

\* the same, for a sync whose config declares every event under which the
\* document held a handler of H before the call
C40_NoStaleUnlessDropped ==
    (/\ tcall.op = "syncHooks"
     /\ MarkedEvents(tcall.before, "H") \subseteq DeclaredEvents(tcall.configs["H"]))
        => MarkedEvents(target.settings, "H") \subseteq DeclaredEvents(tcall.configs["H"])
====
